---- MODULE Spec2Model ----
(***************************************************************************)
(* Configuration and secrets resolution of the backend template:           *)
(*   - the settings groups and their source orderings                      *)
(*     (settings_customise_sources), merged the way pydantic-settings      *)
(*     merges sources (deep_update, first source wins) and validated       *)
(*     against the declared fields;                                        *)
(*   - the process-wide accessors get_app_settings / get_secret_settings / *)
(*     get_secret_jwks, memoised with functools.lru_cache.                 *)
(***************************************************************************)
EXTENDS Integers, Sequences, FiniteSets, TLC

VARIABLES
    \* ---- one resolution pass (constructing one settings object) ----
    group,      \* the settings class being constructed
    phase,      \* "new" | "sources" | "done"
    srcIdx,     \* number of sources already called
    state,      \* the merged mapping built so far (items of a dict)
    fetched,    \* history: what each source called so far returned
    outcome,    \* the constructor's result once phase = "done"
    \* ---- the lru_cache-wrapped accessors ----
    cache,      \* per accessor: the cached entries, least recently used first
    heap,       \* the settings objects alive, by identity
    pc,         \* per caller: where it is in the wrapper
    call,       \* per caller: the accessor and argument of its call in progress
    made,       \* per caller: what its own constructor call produced
    ret,        \* per caller: the result of its last completed call
    hist,       \* history of the accessor calls, for the statements below
    \* ---- one call of one of the helper functions ----
    fn,         \* the function called
    args,       \* its arguments (and what it reads of the process and the disk)
    result,     \* what it returned or raised, once called
    \* ---- the objects of the running application ----
    inst,       \* a secrets object: its fields, what is stored on it, what was computed
    life,       \* the ASGI lifespan: where it is, the connections, the log
    http        \* the requests in flight through CorrelationMiddleware

resolverVars == <<group, phase, srcIdx, state, fetched, outcome>>
cacheVars == <<cache, heap, pc, call, made, ret, hist>>
callVars == <<fn, args, result>>
appVars == <<inst, life, http>>
vars == <<group, phase, srcIdx, state, fetched, outcome,
          cache, heap, pc, call, made, ret, hist,
          fn, args, result, inst, life, http>>

----------------------------------------------------------------------------
(* Raw values, as a source yields them.  A TOML file or a constructor      *)
(* argument yields native integers; the environment, a dotenv file and a   *)
(* secret file yield text.  num says whether the text is a decimal         *)
(* numeral, n is the number it (or the native integer) denotes; pem says   *)
(* whether the text carries a PEM envelope.                                *)

NativeInt(n) == [form |-> "int", num |-> TRUE, n |-> n, pem |-> FALSE]
Text(n) == [form |-> "str", num |-> TRUE, n |-> n, pem |-> FALSE]
PemText(n) == [form |-> "str", num |-> FALSE, n |-> n, pem |-> TRUE]
Junk == [form |-> "str", num |-> FALSE, n |-> 0, pem |-> FALSE]

Leaf(raw) == [kind |-> "leaf", raw |-> raw]
Dict(items) == [kind |-> "dict", items |-> items]
NoItems == [k \in {} |-> Leaf(Junk)]

Providers == {"toml", "init", "env", "dotenv", "secrets"}

\* The value each source supplies in this model: one number per source, so
\* that the resolved value tells which source it came from.
ProviderValue(p) ==
    CASE p = "toml" -> 11
      [] p = "init" -> 12
      [] p = "env" -> 13
      [] p = "dotenv" -> 14
      [] p = "secrets" -> 15

\* A TOML file and a constructor argument hold a native integer for a
\* numeric field; every other value is text.
ProviderRaw(p, type) ==
    IF type = "pem" THEN PemText(ProviderValue(p))
    ELSE IF type # "str" /\ p \in {"toml", "init"} THEN NativeInt(ProviderValue(p))
    ELSE Text(ProviderValue(p))

----------------------------------------------------------------------------
(* The declared fields.  Each group is modelled with the fields the        *)
(* statements below are about; the other fields of the class behave like   *)
(* these.                                                                  *)

Field(type, has_default, default) ==
    [kind |-> "leaf", type |-> type, has_default |-> has_default, default |-> default]
Section(fields, has_default) ==
    [kind |-> "section", fields |-> fields, has_default |-> has_default]

PortDefaultPg == 5432
TimeoutDefault == 5
PortMin == 1
PortMax == 65535

SecretSettings ==
    [PG_PORT |-> Field("int", TRUE, PortDefaultPg),
     AUTH_CSRF_SECRET |-> Field("str", FALSE, 0)]

RedisConfig ==
    [socket_connect_timeout |-> Field("int", TRUE, TimeoutDefault),
     socket_timeout |-> Field("int", TRUE, TimeoutDefault)]

\* AppSettings as declared on Settings (app.core.configs) and, earlier, on
\* TomlConfig (app.core.settings).
AppSettings ==
    [environment |-> Field("str", FALSE, 0),
     redis_connection |-> Section(RedisConfig, TRUE)]
TomlAppSettings == [redis |-> Section(RedisConfig, TRUE)]

PostgresSecrets ==
    [user |-> Field("str", FALSE, 0),
     port |-> Field("port", TRUE, PortDefaultPg)]

SecretTomlSettings == [postgres |-> Section(PostgresSecrets, FALSE)]

JWKSecrets == [private_key |-> Field("pem", FALSE, 0)]

Groups == {"SecretSettings", "AppSettings", "TomlAppSettings", "SecretTomlSettings",
           "JWKSecrets"}

Schema(g) ==
    CASE g = "SecretSettings" -> SecretSettings
      [] g = "AppSettings" -> AppSettings
      [] g = "TomlAppSettings" -> TomlAppSettings
      [] g = "SecretTomlSettings" -> SecretTomlSettings
      [] g = "JWKSecrets" -> JWKSecrets

\* Mutants: the init arguments listed first, as in BaseSettings' own order.
EnvConfigSourcesInitFirst == <<"init", "env", "dotenv", "secrets">>
AppSettingsSourcesInitFirst == <<"init", "toml", "env", "dotenv", "secrets">>

\* settings_customise_sources: the sources, highest priority first.
EnvConfigSources == <<"env", "init", "dotenv", "secrets">>
TomlConfigSources == <<"toml", "init", "env", "dotenv", "secrets">>
AppSettingsSources == <<"toml", "init", "env", "dotenv", "secrets">>
SecretTomlSettingsSources == <<"toml", "init", "env", "dotenv", "secrets">>
\* A class that does not customise its sources keeps BaseSettings' order.
BaseSettingsSources == <<"init", "env", "dotenv", "secrets">>

Sources(g) ==
    CASE g = "SecretSettings" -> EnvConfigSources
      [] g = "AppSettings" -> AppSettingsSources
      [] g = "TomlAppSettings" -> TomlConfigSources
      [] g = "SecretTomlSettings" -> SecretTomlSettingsSources
      [] g = "JWKSecrets" -> BaseSettingsSources

\* The groups whose settings_customise_sources verifies the TOML path first.
VerifiesTomlPath(g) == g \in {"AppSettings", "SecretTomlSettings"}

----------------------------------------------------------------------------
(* What a source may return for a group: a mapping shaped like the         *)
(* group's fields, holding any part of them.  A leaf the source holds      *)
(* carries the source's own value, or (for the fields listed in            *)
(* JunkFields) a text that is no numeral.                                  *)

JunkFields == {"PG_PORT", "port", "private_key"}

LeafChoices(p, name, type) ==
    {Leaf(ProviderRaw(p, type))} \cup (IF name \in JunkFields THEN {Leaf(Junk)} ELSE {})

\* The mappings over the leaf fields `fields` a source p may hold.
LeafMappings(p, fields) ==
    UNION { {m \in [S -> UNION {LeafChoices(p, k, fields[k].type) : k \in S}] :
                \A k \in S : m[k] \in LeafChoices(p, k, fields[k].type)} :
            S \in SUBSET (DOMAIN fields) }

NodeChoices(p, name, f) ==
    IF f.kind = "leaf"
    THEN LeafChoices(p, name, f.type)
    ELSE {Dict(i) : i \in LeafMappings(p, f.fields)}

SourceMappings(p, g) ==
    LET sch == Schema(g)
    IN  UNION { {m \in [S -> UNION {NodeChoices(p, k, sch[k]) : k \in S}] :
                    \A k \in S : m[k] \in NodeChoices(p, k, sch[k])} :
                S \in SUBSET (DOMAIN sch) }

----------------------------------------------------------------------------
(* pydantic-settings builds the constructor's values by calling the        *)
(* sources in order and merging each into the state with                   *)
(* state = deep_update(source(), state): what is already in the state      *)
(* (from an earlier, higher-priority source) wins, dictionaries are merged *)
(* key by key, recursively.                                                *)

\* Mutant: a key of the update replaces the mapping's whole value.
deep_update_shallow(mapping, updating) ==
    [k \in (DOMAIN mapping) \cup (DOMAIN updating) |->
        IF k \in DOMAIN updating THEN updating[k] ELSE mapping[k]]

RECURSIVE deep_update(_, _)
deep_update(mapping, updating) ==
    [k \in (DOMAIN mapping) \cup (DOMAIN updating) |->
        IF k \in DOMAIN updating
        THEN IF k \in DOMAIN mapping /\ mapping[k].kind = "dict" /\ updating[k].kind = "dict"
             THEN Dict(deep_update(mapping[k].items, updating[k].items))
             ELSE updating[k]
        ELSE mapping[k]]

\* Mutant: the arguments swapped, so that the later source wins.
MergeSourceSwapped(st, source_state) == deep_update(st, source_state)

\* One round of the loop over the sources.
MergeSource(st, source_state) == deep_update(source_state, st)

\* Mutant: a port is coerced like any integer, its range unchecked.
CoerceNoRange(type, raw) ==
    CASE type \in {"int", "port"} ->
            IF raw.form = "int" \/ raw.num
            THEN [ok |-> TRUE, v |-> raw.n, err |-> "none"]
            ELSE [ok |-> FALSE, v |-> 0, err |-> "int_parsing"]
      [] type = "str" ->
            IF raw.form = "str"
            THEN [ok |-> TRUE, v |-> raw, err |-> "none"]
            ELSE [ok |-> FALSE, v |-> 0, err |-> "string_type"]
      [] type = "pem" ->
            IF raw.form # "str"
            THEN [ok |-> FALSE, v |-> 0, err |-> "string_type"]
            ELSE IF ~raw.pem
            THEN [ok |-> FALSE, v |-> 0, err |-> "value_error"]
            ELSE [ok |-> TRUE, v |-> raw, err |-> "none"]

\* Type coercion of one raw value by the field's declared type.
Coerce(type, raw) ==
    CASE type = "int" ->
            IF raw.form = "int" \/ raw.num
            THEN [ok |-> TRUE, v |-> raw.n, err |-> "none"]
            ELSE [ok |-> FALSE, v |-> 0, err |-> "int_parsing"]
      [] type = "port" ->
            IF ~(raw.form = "int" \/ raw.num)
            THEN [ok |-> FALSE, v |-> 0, err |-> "int_parsing"]
            ELSE IF raw.n < PortMin
            THEN [ok |-> FALSE, v |-> 0, err |-> "greater_than_equal"]
            ELSE IF raw.n > PortMax
            THEN [ok |-> FALSE, v |-> 0, err |-> "less_than_equal"]
            ELSE [ok |-> TRUE, v |-> raw.n, err |-> "none"]
      [] type = "str" ->
            IF raw.form = "str"
            THEN [ok |-> TRUE, v |-> raw, err |-> "none"]
            ELSE [ok |-> FALSE, v |-> 0, err |-> "string_type"]
      [] type = "pem" ->
            IF raw.form # "str"
            THEN [ok |-> FALSE, v |-> 0, err |-> "string_type"]
            ELSE IF ~raw.pem
            THEN [ok |-> FALSE, v |-> 0, err |-> "value_error"]
            ELSE [ok |-> TRUE, v |-> raw, err |-> "none"]

Error(loc, type) == [loc |-> loc, type |-> type]

\* The default instance of a section: every field at its default.
SectionDefault(fields) == [k \in DOMAIN fields |-> fields[k].default]

\* Validation of the merged mapping against the declared fields: the
\* errors (location and kind), and the field values where there are none.
\* Keys that are no declared field are ignored (extra = 'ignore').
RECURSIVE validate_model(_, _, _)

\* Mutant: a missing field without a default is let through.
validate_field_lenient(f, items, k, loc) ==
    IF k \notin DOMAIN items
    THEN [errors |-> {},
          value |-> IF f.kind = "section" THEN SectionDefault(f.fields) ELSE f.default]
    ELSE IF f.kind = "section"
    THEN validate_model(f.fields, items[k].items, loc)
    ELSE LET c == Coerce(f.type, items[k].raw)
         IN  [errors |-> IF c.ok THEN {} ELSE {Error(loc, c.err)}, value |-> c.v]

validate_field(f, items, k, loc) ==
    IF k \notin DOMAIN items
    THEN IF f.has_default
         THEN [errors |-> {},
               value |-> IF f.kind = "section" THEN SectionDefault(f.fields) ELSE f.default]
         ELSE [errors |-> {Error(loc, "missing")}, value |-> 0]
    ELSE IF f.kind = "section"
    THEN IF items[k].kind = "dict"
         THEN validate_model(f.fields, items[k].items, loc)
         ELSE [errors |-> {Error(loc, "model_type")}, value |-> 0]
    ELSE IF items[k].kind = "leaf"
    THEN LET c == Coerce(f.type, items[k].raw)
         IN  [errors |-> IF c.ok THEN {} ELSE {Error(loc, c.err)}, value |-> c.v]
    ELSE [errors |-> {Error(loc, "type_error")}, value |-> 0]

validate_model(fields, items, loc) ==
    LET r == [k \in DOMAIN fields |-> validate_field(fields[k], items, k, Append(loc, k))]
    IN  [errors |-> UNION {r[k].errors : k \in DOMAIN fields},
         value |-> [k \in DOMAIN fields |-> r[k].value]]

\* The constructor's result: the settings object's values, or the error
\* raised (a ValidationError carrying every failing field, or the
\* FileNotFoundError of verify_toml_path).
Resolved(value) == [ok |-> TRUE, value |-> value, error |-> "none", errors |-> {}]
Raised(error, errors) == [ok |-> FALSE, value |-> 0, error |-> error, errors |-> errors]
Pending == [ok |-> FALSE, value |-> 0, error |-> "pending", errors |-> {}]

ModelValidate(g, st) ==
    LET r == validate_model(Schema(g), st, <<>>)
    IN  IF r.errors = {} THEN Resolved(r.value) ELSE Raised("ValidationError", r.errors)

----------------------------------------------------------------------------
(* One resolution pass: BaseSettings.__init__ asks the class for its       *)
(* sources, calls them in order merging what they return, and validates    *)
(* the merged mapping.                                                     *)

\* No helper function is being called.
NotCalled == [called |-> FALSE, ok |-> FALSE]
\* No secrets object, no lifespan and no request is being followed.
AppIdle ==
    /\ inst = <<>>
    /\ life = <<>>
    /\ http = <<>>
CallIdle ==
    /\ fn = "none"
    /\ args = <<>>
    /\ result = NotCalled
    /\ AppIdle

ResolverIdle ==
    /\ group = "SecretSettings"
    /\ phase = "done"
    /\ srcIdx = 0
    /\ state = NoItems
    /\ fetched = <<>>
    /\ outcome = Pending

ResolverInit ==
    /\ group \in Groups
    /\ phase = "new"
    /\ srcIdx = 0
    /\ state = NoItems
    /\ fetched = <<>>
    /\ outcome = Pending

\* settings_customise_sources: AppSettings and SecretTomlSettings verify
\* that the environment's TOML file exists and raise FileNotFoundError
\* otherwise; the other groups only list their sources.
CustomiseSources(toml_exists) ==
    /\ phase = "new"
    /\ IF VerifiesTomlPath(group) /\ ~toml_exists
       THEN /\ phase' = "done"
            /\ outcome' = Raised("FileNotFoundError", {})
       ELSE /\ phase' = "sources"
            /\ outcome' = outcome
    /\ UNCHANGED <<group, srcIdx, state, fetched>>
    /\ UNCHANGED cacheVars
    /\ UNCHANGED callVars
    /\ UNCHANGED appVars

\* The next source is called and what it returns is merged into the state.
CallSource ==
    /\ phase = "sources"
    /\ srcIdx < Len(Sources(group))
    /\ \E m \in SourceMappings(Sources(group)[srcIdx + 1], group) :
          /\ state' = MergeSource(state, m)
          /\ fetched' = Append(fetched, m)
    /\ srcIdx' = srcIdx + 1
    /\ UNCHANGED <<group, phase, outcome>>
    /\ UNCHANGED cacheVars
    /\ UNCHANGED callVars
    /\ UNCHANGED appVars

\* All sources called: the merged mapping is validated.
Validate ==
    /\ phase = "sources"
    /\ srcIdx = Len(Sources(group))
    /\ outcome' = ModelValidate(group, state)
    /\ phase' = "done"
    /\ UNCHANGED <<group, srcIdx, state, fetched>>
    /\ UNCHANGED cacheVars
    /\ UNCHANGED callVars
    /\ UNCHANGED appVars

ResolverNext ==
    \/ \E toml_exists \in BOOLEAN : CustomiseSources(toml_exists)
    \/ CallSource
    \/ Validate

----------------------------------------------------------------------------
(* Statements about one resolution pass (SpecResolve).                     *)

\* Whether a mapping holds a leaf at the path, and the raw value there.
RECURSIVE Has(_, _)
Has(items, path) ==
    /\ path[1] \in DOMAIN items
    /\ IF Len(path) = 1
       THEN items[path[1]].kind = "leaf"
       ELSE items[path[1]].kind = "dict" /\ Has(items[path[1]].items, Tail(path))

RECURSIVE RawAt(_, _)
RawAt(items, path) ==
    IF Len(path) = 1 THEN items[path[1]].raw
    ELSE RawAt(items[path[1]].items, Tail(path))

\* The declared leaf fields of a group, as paths.
LeafPaths(g) ==
    LET sch == Schema(g)
    IN  {<<k>> : k \in {x \in DOMAIN sch : sch[x].kind = "leaf"}}
        \cup UNION { {<<k, j>> : j \in DOMAIN sch[k].fields} :
                      k \in {x \in DOMAIN sch : sch[x].kind = "section"} }

RECURSIVE FieldAt(_, _)
FieldAt(fields, path) ==
    IF Len(path) = 1 THEN fields[path[1]]
    ELSE FieldAt(fields[path[1]].fields, Tail(path))

RECURSIVE ValueAt(_, _)
ValueAt(value, path) ==
    IF Len(path) = 1 THEN value[path[1]]
    ELSE ValueAt(value[path[1]], Tail(path))

TypeAt(g, path) == FieldAt(Schema(g), path).type

\* The sources called so far that returned a value for the path, by their
\* place in the group's declared order; the first of them (0 if none).
Suppliers(path) == {i \in 1..Len(fetched) : Has(fetched[i], path)}
FirstSupplier(path) ==
    IF Suppliers(path) = {} THEN 0
    ELSE CHOOSE i \in Suppliers(path) : \A j \in Suppliers(path) : i <= j

ResolvedOk == phase = "done" /\ outcome.ok

\* What the field at the path resolves to when source p's value wins.
ValueFrom(p, path) ==
    Coerce(TypeAt(group, path), ProviderRaw(p, TypeAt(group, path))).v

\* C3: in every group and for every field path at any depth, the resolved
\* field is the coercion of the value held by the first source, in the
\* group's declared order, that holds the path; what later sources hold
\* for the path makes no difference.
C3_HighestPriorityWins ==
    ResolvedOk =>
        \A path \in LeafPaths(group) :
            FirstSupplier(path) # 0 =>
                LET c == Coerce(TypeAt(group, path), RawAt(fetched[FirstSupplier(path)], path))
                IN  c.ok /\ ValueAt(outcome.value, path) = c.v

C3_Witness ==
    /\ ResolvedOk
    /\ \E path \in LeafPaths(group) :
          /\ Len(path) = 2
          /\ \E i, j \in Suppliers(path) :
                /\ i < j
                /\ RawAt(fetched[i], path) # RawAt(fetched[j], path)
                /\ ValueAt(outcome.value, path) = ValueFrom(Sources(group)[i], path)

\* Whether every resolved field that some source holds carries the value
\* of the holder ranked first in `ranking`.
FollowsRanking(ranking) ==
    \A path \in LeafPaths(group) :
        LET held == {Sources(group)[i] : i \in Suppliers(path)}
            rank(p) == CHOOSE r \in 1..Len(ranking) : ranking[r] = p
        IN  held # {} =>
              /\ \A p \in held : \E r \in 1..Len(ranking) : ranking[r] = p
              /\ LET w == CHOOSE p \in held : \A q \in held : rank(p) <= rank(q)
                 IN  ValueAt(outcome.value, path) = ValueFrom(w, path)

FileFirstGroups == {"AppSettings", "TomlAppSettings", "SecretTomlSettings"}

\* C4: in the file-first groups the precedence is exactly TOML file, init
\* arguments, environment variables, dotenv file, secret files: a value
\* in the TOML file is never overridden, a dotenv value never overrides an
\* environment variable.
C4_FileFirstOrder ==
    (ResolvedOk /\ group \in FileFirstGroups) =>
        /\ Len(Sources(group)) = 5
        /\ FollowsRanking(<<"toml", "init", "env", "dotenv", "secrets">>)

C4_Witness ==
    /\ ResolvedOk
    /\ group \in FileFirstGroups
    /\ \E path \in LeafPaths(group) :
          /\ Suppliers(path) = 1..5
          /\ ValueAt(outcome.value, path) = ValueFrom("toml", path)
    /\ \E path \in LeafPaths(group) :
          /\ Suppliers(path) = {3, 4}
          /\ ValueAt(outcome.value, path) = ValueFrom("env", path)

EnvFirstGroups == {"SecretSettings"}

C6_NestedFieldwise ==
    ResolvedOk =>
        \A path \in {q \in LeafPaths(group) : Len(q) = 2} :
            ValueAt(outcome.value, path) =
                IF FirstSupplier(path) = 0
                THEN FieldAt(Schema(group), path).default
                ELSE Coerce(TypeAt(group, path), RawAt(fetched[FirstSupplier(path)], path)).v

C6_Witness ==
    /\ ResolvedOk
    /\ \E x, y \in {q \in LeafPaths(group) : Len(q) = 2} :
          /\ x # y
          /\ x[1] = y[1]
          /\ FirstSupplier(x) # 0
          /\ FirstSupplier(x) < FirstSupplier(y)
          /\ ~Has(fetched[FirstSupplier(x)], y)
          /\ ValueAt(outcome.value, x) = ValueFrom(Sources(group)[FirstSupplier(x)], x)
          /\ ValueAt(outcome.value, y) = ValueFrom(Sources(group)[FirstSupplier(y)], y)

\* The validation ran (the TOML path check, where there is one, passed).
Validated == phase = "done" /\ outcome.error # "FileNotFoundError"

\* Whether some source called returned the section at all.
SectionSupplied(name) ==
    \E i \in 1..Len(fetched) : name \in DOMAIN fetched[i]

----------------------------------------------------------------------------
(* The whole constructor as one function of what it reads: whether the     *)
(* environment's TOML file exists and what each source returns.            *)

RECURSIVE BuildValues(_, _)
BuildValues(st, mappings) ==
    IF mappings = <<>> THEN st
    ELSE BuildValues(MergeSource(st, Head(mappings)), Tail(mappings))

SettingsInit(g, toml_exists, mappings) ==
    IF VerifiesTomlPath(g) /\ ~toml_exists
    THEN Raised("FileNotFoundError", {})
    ELSE ModelValidate(g, BuildValues(NoItems, mappings))

\* The inputs the accessors' constructors are run on: no source returns
\* anything, or the group's first source returns every field (each with
\* the source's value, or each with the text that is no numeral where the
\* field may hold it).
EmptyInputs(g) == [i \in 1..Len(Sources(g)) |-> NoItems]

FullLeaves(p, fields, junk) ==
    [k \in DOMAIN fields |->
        IF junk /\ k \in JunkFields THEN Leaf(Junk) ELSE Leaf(ProviderRaw(p, fields[k].type))]

FullMapping(p, g, junk) ==
    LET sch == Schema(g)
    IN  [k \in DOMAIN sch |->
            IF sch[k].kind = "section"
            THEN Dict(FullLeaves(p, sch[k].fields, junk))
            ELSE FullLeaves(p, sch, junk)[k]]

SampleInputs(g) ==
    {EmptyInputs(g)} \cup
    { [i \in 1..Len(Sources(g)) |-> IF i = 1 THEN FullMapping(Sources(g)[1], g, junk) ELSE NoItems] :
        junk \in BOOLEAN }

----------------------------------------------------------------------------
(* The accessors.  Each is wrapped by functools.lru_cache, used bare, so   *)
(* with the default maxsize: a dictionary from the call's arguments to the *)
(* returned object, kept in least-recently-used order and bounded.         *)

NumThreads == 2
Threads == 1..NumThreads

maxsize == 128

\* get_app_settings is modelled in its form with the environment
\* parameter (app.core.settings); get_secret_settings and get_secret_jwks
\* take no argument (app.settings), as do app.settings.get_app_settings
\* and app.core.settings.get_secret_settings, which are wrapped the same.
Accessors == {"get_app_settings", "get_secret_settings", "get_secret_jwks"}

GroupOf(acc) ==
    CASE acc = "get_app_settings" -> "TomlAppSettings"
      [] acc = "get_secret_settings" -> "SecretTomlSettings"
      [] acc = "get_secret_jwks" -> "JWKSecrets"

\* The wrapped function: get_app_settings raises FileNotFoundError itself
\* when the environment's file is missing; otherwise the accessors only
\* construct their settings class.
AccessorBody(acc, toml_exists, mappings) ==
    IF acc = "get_app_settings" /\ ~toml_exists
    THEN Raised("FileNotFoundError", {})
    ELSE SettingsInit(GroupOf(acc), toml_exists, mappings)

\* Environment names are numbered from 1; 0 is a call that passes none.
NumEnvs == 1
MaxObjects == 2
\* One environment name more than the cache holds.
MaxEnvNames == maxsize + 1

ArgsOf(acc) == IF acc = "get_app_settings" THEN 0..NumEnvs ELSE {0}

Key(acc, arg) == [acc |-> acc, arg |-> arg]
Entry(arg, obj) == [key |-> arg, obj |-> obj]

CacheHas(c, arg) == \E i \in 1..Len(c) : c[i].key = arg
CacheIndex(c, arg) == CHOOSE i \in 1..Len(c) : c[i].key = arg
CacheGet(c, arg) == c[CacheIndex(c, arg)].obj

\* A hit moves the entry to the most-recently-used end.
Touch(c, arg) ==
    LET i == CacheIndex(c, arg)
    IN  Append(SubSeq(c, 1, i - 1) \o SubSeq(c, i + 1, Len(c)), c[i])

\* Mutant: the result is not stored.
InsertNothing(c, arg, obj) == c

\* A new entry goes to the most-recently-used end; a full cache first
\* drops its least recently used entry.
Insert(c, arg, obj) ==
    IF Len(c) < maxsize
    THEN Append(c, Entry(arg, obj))
    ELSE Append(Tail(c), Entry(arg, obj))

NoResult == [ok |-> FALSE, obj |-> 0, error |-> "none", errors |-> {}]
Returned(obj) == [ok |-> TRUE, obj |-> obj, error |-> "none", errors |-> {}]
\* Mutant: the exception is swallowed, the caller gets no result.
FailedSwallowed(out) == [ok |-> FALSE, obj |-> 0, error |-> "none", errors |-> {}]

Failed(out) == [ok |-> FALSE, obj |-> 0, error |-> out.error, errors |-> out.errors]

NoCall == [acc |-> "none", arg |-> 0, obj |-> 0, repeat |-> FALSE]
NoKey == Key("none", 0)

\* History kept for the statements, as the specification asks for it.
\* mode "last": the last call that returned an object (repeat: the call
\* completed before it returned one for the same arguments), since the
\* accessor's cache was last cleared.  mode "seen": the object each key
\* returned first since the accessor's cache was last cleared, and the
\* highest environment number requested.  mode "off": nothing.
HistInit(mode) ==
    [mode |-> mode,
     last |-> NoCall,
     seen |-> [k \in {} |-> 0],
     used |-> 0]

HistReturn(h, c, res) ==
    [h EXCEPT
       !.last = IF h.mode # "last" THEN @
                ELSE IF res.ok
                THEN [acc |-> c.acc, arg |-> c.arg, obj |-> res.obj,
                      repeat |-> h.last.acc = c.acc /\ h.last.arg = c.arg]
                ELSE NoCall,
       !.seen = IF h.mode = "seen" /\ res.ok /\ c \notin DOMAIN h.seen
                THEN (c :> res.obj) @@ h.seen
                ELSE @]

HistRequest(h, arg) ==
    IF h.mode = "seen" /\ arg > h.used THEN [h EXCEPT !.used = arg] ELSE h

HistClear(h, acc) ==
    [h EXCEPT
       !.last = IF h.last.acc = acc THEN NoCall ELSE h.last,
       !.seen = [k \in {x \in DOMAIN h.seen : x.acc # acc} |-> h.seen[k]]]

CacheIdle ==
    /\ cache = [a \in Accessors |-> <<>>]
    /\ heap = <<>>
    /\ pc = [t \in Threads |-> "idle"]
    /\ call = [t \in Threads |-> NoKey]
    /\ made = [t \in Threads |-> 0]
    /\ ret = [t \in Threads |-> NoResult]

\* The wrapper looks the arguments up.  A hit returns the cached object; a
\* miss goes on to call the wrapped function.
Lookup(t, acc, arg) ==
    /\ pc[t] = "idle"
    /\ IF CacheHas(cache[acc], arg)
       THEN /\ cache' = [cache EXCEPT ![acc] = Touch(cache[acc], arg)]
            /\ call' = call
            /\ ret' = [ret EXCEPT ![t] = Returned(CacheGet(cache[acc], arg))]
            /\ hist' = HistRequest(HistReturn(hist, Key(acc, arg),
                                               Returned(CacheGet(cache[acc], arg))), arg)
            /\ pc' = pc
       ELSE /\ pc' = [pc EXCEPT ![t] = "miss"]
            /\ call' = [call EXCEPT ![t] = Key(acc, arg)]
            /\ ret' = [ret EXCEPT ![t] = NoResult]
            /\ hist' = HistRequest(hist, arg)
            /\ cache' = cache
    /\ UNCHANGED <<heap, made>>
    /\ UNCHANGED resolverVars
    /\ UNCHANGED callVars
    /\ UNCHANGED appVars

\* The wrapped function runs: it constructs the settings object.  An
\* exception leaves the wrapper at once, with nothing stored.
Construct(t, toml_exists, mappings) ==
    /\ pc[t] = "miss"
    /\ LET g == GroupOf(call[t].acc)
           out == AccessorBody(call[t].acc, toml_exists, mappings)
       IN  IF out.ok
           THEN /\ heap' = Append(heap, [group |-> g, value |-> out.value])
                /\ made' = [made EXCEPT ![t] = Len(heap) + 1]
                /\ pc' = [pc EXCEPT ![t] = "made"]
                /\ UNCHANGED <<ret, hist, call>>
           ELSE /\ ret' = [ret EXCEPT ![t] = Failed(out)]
                /\ pc' = [pc EXCEPT ![t] = "idle"]
                /\ call' = [call EXCEPT ![t] = NoKey]
                /\ hist' = HistReturn(hist, call[t], Failed(out))
                /\ UNCHANGED <<heap, made>>
    /\ cache' = cache
    /\ UNCHANGED resolverVars
    /\ UNCHANGED callVars
    /\ UNCHANGED appVars

\* Back in the wrapper with the function's result: if the key was stored
\* meanwhile the result is returned as it is, otherwise it is stored.
Store(t) ==
    /\ pc[t] = "made"
    /\ LET acc == call[t].acc
           arg == call[t].arg
       IN  cache' = IF CacheHas(cache[acc], arg)
                    THEN cache
                    ELSE [cache EXCEPT ![acc] = Insert(cache[acc], arg, made[t])]
    /\ ret' = [ret EXCEPT ![t] = Returned(made[t])]
    /\ pc' = [pc EXCEPT ![t] = "idle"]
    /\ hist' = HistReturn(hist, call[t], Returned(made[t]))
    /\ made' = [made EXCEPT ![t] = 0]
    /\ call' = [call EXCEPT ![t] = NoKey]
    /\ heap' = heap
    /\ UNCHANGED resolverVars
    /\ UNCHANGED callVars
    /\ UNCHANGED appVars

\* accessor.cache_clear()
CacheClear(acc) ==
    /\ cache' = [cache EXCEPT ![acc] = <<>>]
    /\ hist' = HistClear(hist, acc)
    /\ UNCHANGED <<heap, pc, call, made, ret>>
    /\ UNCHANGED resolverVars
    /\ UNCHANGED callVars
    /\ UNCHANGED appVars

RECURSIVE SetAt(_, _, _)
SetAt(value, path, v) ==
    IF Len(path) = 1 THEN [value EXCEPT ![path[1]] = v]
    ELSE [value EXCEPT ![path[1]] = SetAt(value[path[1]], Tail(path), v)]

\* What call sites assign: an integer in a port's range, an integer below
\* it, a PEM text.
AssignedRaws == {NativeInt(16), NativeInt(0), PemText(16)}
AssignedPaths == {<<"redis", "socket_timeout">>, <<"postgres", "port">>,
                  <<"private_key">>}

\* Whether assigning the field at the path is validated.  The settings
\* classes and the sections of the secrets set validate_assignment; the
\* TomlSection that get_app_settings' sections derive from sets nothing,
\* so that a field of such a section takes what it is assigned.
ValidatesAssignment(g, path) == Len(path) = 1 \/ g # "TomlAppSettings"

\* A call site holding a settings object assigns one of its fields (or a
\* field of one of its sections).  Where the assignment is validated, the
\* value is validated as at construction: a valid value replaces the
\* field's value in the object, an invalid one raises and changes nothing.
\* Where it is not, the object takes the value as it is (the model follows
\* the integer assignments, the fields concerned being integers).
Assign(t, path, raw) ==
    /\ pc[t] = "idle"
    /\ ret[t].ok
    /\ LET obj == ret[t].obj
           g == heap[obj].group
       IN  /\ path \in LeafPaths(g)
           /\ IF ValidatesAssignment(g, path)
              THEN LET c == Coerce(FieldAt(Schema(g), path).type, raw)
                   IN  heap' = IF c.ok
                               THEN [heap EXCEPT ![obj].value = SetAt(heap[obj].value, path, c.v)]
                               ELSE heap
              ELSE /\ raw.form = "int"
                   /\ heap' = [heap EXCEPT ![obj].value = SetAt(heap[obj].value, path, raw.n)]
    /\ UNCHANGED <<cache, pc, call, made, ret, hist>>
    /\ UNCHANGED resolverVars
    /\ UNCHANGED callVars
    /\ UNCHANGED appVars

----------------------------------------------------------------------------
(* The specifications.                                                     *)

\* One resolution pass of any group, over every combination of what its
\* sources return.
InitResolve == ResolverInit /\ CacheIdle /\ hist = HistInit("off") /\ CallIdle
SpecResolve == InitResolve /\ [][ResolverNext]_vars

\* The accessors called from concurrent callers (threads).
Init == ResolverIdle /\ CacheIdle /\ hist = HistInit("off") /\ CallIdle

Next ==
    \/ \E t \in Threads : \E acc \in Accessors : \E arg \in ArgsOf(acc) :
          Lookup(t, acc, arg)
    \/ \E t \in Threads : \E toml_exists \in BOOLEAN :
          /\ pc[t] = "miss"
          /\ Len(heap) < MaxObjects
          /\ \E mappings \in SampleInputs(GroupOf(call[t].acc)) :
                Construct(t, toml_exists, mappings)
    \/ \E t \in Threads : Store(t)
    \/ \E acc \in Accessors : CacheClear(acc)
    \/ \E t \in Threads : \E path \in AssignedPaths : \E raw \in AssignedRaws :
          Assign(t, path, raw)

Spec == Init /\ [][Next]_vars

\* The accessors called by one caller, one call at a time.
InitSeq == ResolverIdle /\ CacheIdle /\ hist = HistInit("last") /\ CallIdle

NextSeq ==
    \/ \E acc \in Accessors : \E arg \in ArgsOf(acc) : Lookup(1, acc, arg)
    \/ \E toml_exists \in BOOLEAN :
          /\ pc[1] = "miss"
          /\ Len(heap) < MaxObjects
          /\ \E mappings \in SampleInputs(GroupOf(call[1].acc)) :
                Construct(1, toml_exists, mappings)
    \/ Store(1)
    \/ \E acc \in Accessors : CacheClear(acc)
    \/ \E path \in AssignedPaths : \E raw \in AssignedRaws : Assign(1, path, raw)

SpecSeq == InitSeq /\ [][NextSeq]_vars

\* One caller requesting get_app_settings for many environments, one call
\* at a time; every environment requested has its TOML file.  The names
\* are numbered in the order of their first request; the caller asks for
\* a new name, for the latest one again, or for the first one again.
RequestedNext ==
    {e \in 1..MaxEnvNames : e = 1 \/ e = hist.used \/ e = hist.used + 1}

InitLru == ResolverIdle /\ CacheIdle /\ hist = HistInit("seen") /\ CallIdle

NextLru ==
    \/ \E e \in RequestedNext : Lookup(1, "get_app_settings", e)
    \/ Len(heap) <= MaxEnvNames /\ Construct(1, TRUE, EmptyInputs("TomlAppSettings"))
    \/ Store(1)

SpecLru == InitLru /\ [][NextLru]_vars

----------------------------------------------------------------------------
(* Statements about the accessors.                                         *)

SameKey(c, d) == c.acc = d.acc /\ c.arg = d.arg

\* The wrapped function is run for caller t in this step.
ConstructorRuns(t) == pc[t] = "miss" /\ pc'[t] # "miss"

\* C1: with the accessors called one call at a time, a call that follows,
\* with no cache clear in between, a call with the same accessor and
\* arguments returns the object that call returned, and the constructor
\* is not run again for those arguments.
C1_SameObjectOneRun ==
    [][ /\ hist'.last.repeat => hist'.last.obj = hist.last.obj
        /\ \A t \in Threads : ConstructorRuns(t) => ~SameKey(hist.last, call[t]) ]_vars

C1_Witness ==
    /\ hist.last.repeat
    /\ hist.last.acc = "get_app_settings"
    /\ hist.last.arg # 0
    /\ \E t \in Threads : pc[t] = "idle" /\ ret[t] = Returned(hist.last.obj)

\* C2: no two callers are ever both back from the constructor, each with
\* an object of its own, for the same accessor and arguments.
C2_SingleFlight ==
    \A t, u \in Threads :
        (t # u /\ pc[t] = "made" /\ pc[u] = "made") => ~SameKey(call[t], call[u])

\* C8: when the constructor fails, the caller's call ends there with the
\* error raised (a FileNotFoundError, or a ValidationError that carries the
\* failing fields); nothing is stored in any cache and no object comes to
\* exist.
C8_FailurePropagates ==
    [][ \A t \in Threads :
          (ConstructorRuns(t) /\ pc'[t] = "idle") =>
              /\ ~ret'[t].ok
              /\ \/ ret'[t].error = "FileNotFoundError"
                 \/ ret'[t].error = "ValidationError" /\ ret'[t].errors # {}
              /\ cache' = cache
              /\ heap' = heap ]_vars

\* A call of get_secret_settings has failed on a port that is no number;
\* nothing is cached for it, and the entries of another accessor stand.
C8_Witness ==
    \E t \in Threads :
        /\ pc[t] = "idle"
        /\ ret[t].error = "ValidationError"
        /\ Error(<<"postgres", "port">>, "int_parsing") \in ret[t].errors
        /\ cache["get_secret_settings"] = <<>>
        /\ cache["get_app_settings"] # <<>>

\* C9: the constructor is never run for an accessor and arguments that
\* have returned an object since the accessor's cache was last cleared.
C9_NeverEvicted ==
    \A t \in Threads : pc[t] = "miss" => call[t] \notin DOMAIN hist.seen

Objects == 1..Len(heap)

Meets(type, v) ==
    CASE type = "port" -> v >= PortMin /\ v <= PortMax
      [] type = "int" -> v \in Int
      [] type \in {"str", "pem"} -> v.form = "str" /\ (type = "pem" => v.pem)

----------------------------------------------------------------------------
(* The helper functions, each called once on inputs drawn from bounded     *)
(* sets.  A text is a sequence of characters.                              *)

Return(v) == [called |-> TRUE, ok |-> TRUE, value |-> v]
Raise(error, info) == [called |-> TRUE, ok |-> FALSE, error |-> error, info |-> info]

MaxLen == 5

\* The texts over an alphabet, of up to n characters.
Texts(alphabet, n) == UNION {[1..k -> alphabet] : k \in 0..n}

Whitespace == {" ", "\n"}

\* str.lstrip()
RECURSIVE lstrip(_)
lstrip(s) ==
    IF s # <<>> /\ Head(s) \in Whitespace THEN lstrip(Tail(s)) ELSE s

RECURSIVE rstrip(_)
rstrip(s) ==
    IF s # <<>> /\ s[Len(s)] \in Whitespace THEN rstrip(SubSeq(s, 1, Len(s) - 1)) ELSE s

\* Mutant: the trailing whitespace is left.
strip_leading(s) == lstrip(s)

\* str.strip()
strip(s) == rstrip(lstrip(s))

\* str.split(sep) for a separator of one character.
RECURSIVE split(_, _)
split(s, sep) ==
    IF \A i \in 1..Len(s) : s[i] # sep
    THEN <<s>>
    ELSE LET i == CHOOSE j \in 1..Len(s) : s[j] = sep /\ \A k \in 1..(j - 1) : s[k] # sep
         IN  <<SubSeq(s, 1, i - 1)>> \o split(SubSeq(s, i + 1, Len(s)), sep)

Range(seq) == {seq[i] : i \in 1..Len(seq)}

\* [item.strip() for item in value.split(',') if item.strip()], and its set.
parse_env_sequence(value, is_hashset) ==
    LET kept == SelectSeq(split(value, ","), LAMBDA item : strip(item) # <<>>)
        seq == [i \in 1..Len(kept) |-> strip(kept[i])]
    IN  IF is_hashset THEN Range(seq) ELSE seq

ParseAlphabet == {"a", "b", ",", " "}
ParseInputs == [value : Texts(ParseAlphabet, MaxLen), is_hashset : BOOLEAN]

CallParseEnvSequence ==
    /\ fn = "parse_env_sequence"
    /\ ~result.called
    /\ result' = Return(parse_env_sequence(args.value, args.is_hashset))
    /\ UNCHANGED <<fn, args>>
    /\ UNCHANGED appVars
    /\ UNCHANGED resolverVars
    /\ UNCHANGED cacheVars

\* Whether the list r is the list of the comma-separated pieces of the
\* text, trimmed, the empty ones dropped, in order: its elements are
\* non-empty, hold no comma and neither start nor end with whitespace;
\* they lie in the text one after the other with a comma between each two;
\* and all the text outside them is commas and whitespace.
IsPieces(r, value) ==
    /\ \A i \in 1..Len(r) :
          /\ r[i] # <<>>
          /\ \A k \in 1..Len(r[i]) : r[i][k] # ","
          /\ r[i][1] \notin Whitespace
          /\ r[i][Len(r[i])] \notin Whitespace
    /\ \E pos \in [1..Len(r) -> 1..(Len(value) + 1)] :
          LET last(i) == pos[i] + Len(r[i]) - 1
              inside(k) == \E i \in 1..Len(r) : pos[i] <= k /\ k <= last(i)
          IN  /\ \A i \in 1..Len(r) :
                    last(i) <= Len(value) /\ SubSeq(value, pos[i], last(i)) = r[i]
              /\ \A i \in 1..(Len(r) - 1) :
                    \E k \in (last(i) + 1)..(pos[i + 1] - 1) : value[k] = ","
              /\ \A k \in 1..Len(value) :
                    ~inside(k) => value[k] \in Whitespace \cup {","}

CalledOk(f) == fn = f /\ result.called /\ result.ok

\* C11: parse_env_sequence returns the list of the comma-separated pieces
\* of the text, trimmed, the empty ones dropped, in their order and with
\* duplicates; with is_hashset it returns the set of that list's elements.
C11_ParseEnvSequence ==
    CalledOk("parse_env_sequence") =>
        IF args.is_hashset
        THEN /\ IsPieces(parse_env_sequence(args.value, FALSE), args.value)
             /\ result.value = Range(parse_env_sequence(args.value, FALSE))
        ELSE IsPieces(result.value, args.value)

C11_Witness ==
    /\ CalledOk("parse_env_sequence")
    /\ args.value = <<"a", " ", ",", ",", "a">>
    /\ ~args.is_hashset
    /\ result.value = << <<"a">>, <<"a">> >>

----------------------------------------------------------------------------
(* _EnvSource: the environment-variable source with the comma-splitting    *)
(* coercer.  EnvSettingsSource calls prepare_field_value once for every    *)
(* field declared on the settings class itself, with the text of the       *)
(* matching variable, or None when no variable matches.  A field inside a  *)
(* section is not passed to prepare_field_value: the section is, and the   *)
(* base class gathers the SECTION__FIELD variables (when the class sets a  *)
(* nested delimiter) and decodes the text of a list or set field as JSON.  *)

\* Python values, by their type.
None == [type |-> "NoneType", v |-> <<>>]
Str(text) == [type |-> "str", v |-> text]
List(seq) == [type |-> "list", v |-> seq]
Set(elements) == [type |-> "set", v |-> elements]

\* _parse_env_sequence applied to what prepare_field_value is given.
Coerced(shape, value) ==
    IF shape = "set"
    THEN Set(parse_env_sequence(value.v, TRUE))
    ELSE List(parse_env_sequence(value.v, FALSE))

\* json.loads of the text of a list field: an array "[x,y]" decodes (the
\* quotes of its strings are left out of the model's alphabet), any other
\* text is a decoding error.
IsJsonArray(text) ==
    /\ Len(text) >= 2
    /\ text[1] = "[" /\ text[Len(text)] = "]"
    /\ \A k \in 2..(Len(text) - 1) : text[k] \notin {"[", "]"}
    /\ LET inner == SubSeq(text, 2, Len(text) - 1)
       IN  inner = <<>> \/ \A i \in 1..Len(split(inner, ",")) : split(inner, ",")[i] # <<>>

json_loads(text) ==
    LET inner == SubSeq(text, 2, Len(text) - 1)
    IN  IF inner = <<>> THEN <<>> ELSE split(inner, ",")

\* EnvSettingsSource.prepare_field_value for a field that is no list and
\* no set in _EnvSource's eyes: a scalar's text is passed through; for a
\* section the nested variable is gathered and, for a list or set field,
\* decoded as JSON.
super_prepare_field_value(depth, shape, delimiter, value) ==
    IF depth = 1 THEN Return(value)
    ELSE IF ~delimiter \/ value = None THEN Return(None)
    ELSE IF shape = "scalar" THEN Return(value)
    ELSE IF IsJsonArray(value.v)
    THEN Return(IF shape = "set" THEN Set(Range(json_loads(value.v)))
                ELSE List(json_loads(value.v)))
    ELSE Raise("SettingsError", "json")

\* _EnvSource.prepare_field_value, for the field at the given depth (1: a
\* field of the class; 2: a field of a section of the class) and of the
\* given declared shape.  At depth 2 the field prepare_field_value sees is
\* the section, whose origin is neither list nor set.
prepare_field_value(depth, shape, delimiter, value) ==
    IF depth = 1 /\ shape \in {"list", "set"}
    THEN IF value = None
         THEN Raise("AttributeError", "split")
         ELSE Return(Coerced(shape, value))
    ELSE super_prepare_field_value(depth, shape, delimiter, value)

EnvAlphabet == {"a", ",", "[", "]"}
EnvValues == Texts(EnvAlphabet, MaxLen)
Shapes == {"list", "set", "scalar"}

CallPrepareFieldValue ==
    /\ fn = "prepare_field_value"
    /\ ~result.called
    /\ result' = prepare_field_value(args.depth, args.shape, args.delimiter, args.value)
    /\ UNCHANGED <<fn, args>>
    /\ UNCHANGED appVars
    /\ UNCHANGED resolverVars
    /\ UNCHANGED cacheVars

\* C12: the environment source hands on, for a field of any depth, the
\* comma-split list (or set) when the field is declared a list (or set)
\* and the text unchanged otherwise; with no matching variable it hands
\* on nothing and raises nothing.
C12_SplitsSequencesAtAnyDepth ==
    (fn = "prepare_field_value" /\ result.called) =>
        /\ result.ok
        /\ result.value =
              IF args.value = None THEN None
              ELSE IF args.shape = "scalar" THEN args.value
              ELSE Coerced(args.shape, args.value)

----------------------------------------------------------------------------
(* The application settings constructed with one environment variable      *)
(* set.  A variable's name is the sequence of its parts between the        *)
(* delimiter "__": <<"REDIS", "SOCKET_TIMEOUT">> is REDIS__SOCKET_TIMEOUT. *)

\* str.lower() on the names of the model.
lower(part) ==
    CASE part \in {"REDIS", "Redis", "redis"} -> "redis"
      [] part \in {"REDIS_CONNECTION", "redis_connection"} -> "redis_connection"
      [] part \in {"SOCKET_TIMEOUT", "socket_timeout"} -> "socket_timeout"
      [] part \in {"PRIVATE_KEY", "private_key"} -> "private_key"
      [] part \in {"DEBUG", "debug"} -> "debug"
      [] part \in {"HOSTS", "hosts"} -> "hosts"
      [] part \in {"X-Correlation-ID", "x-correlation-id"} -> "x-correlation-id"
      [] OTHER -> part

\* env_nested_delimiter: '__' on BaseConfig and Settings; TomlConfig
\* derives from BaseSettings directly and sets none.
HasNestedDelimiter(g) == g # "TomlAppSettings"

\* What the environment source returns for a class when the one variable
\* is set: names are matched case-insensitively; with a nested delimiter
\* the first part names a section of the class and the second a field of
\* it; without one the whole name would have to be a field's name, which
\* a name of two parts is not.
env_settings(g, name, raw) ==
    IF /\ HasNestedDelimiter(g)
       /\ Len(name) = 2
       /\ lower(name[1]) \in DOMAIN Schema(g)
       /\ Schema(g)[lower(name[1])].kind = "section"
       /\ lower(name[2]) \in DOMAIN Schema(g)[lower(name[1])].fields
    THEN (lower(name[1]) :> Dict(lower(name[2]) :> Leaf(raw)))
    ELSE NoItems

\* The per-environment file: it declares the environment where the class
\* has the field, and the Redis socket timeout or not.
toml_settings(g, declares_timeout) ==
    LET section == CHOOSE k \in DOMAIN Schema(g) : Schema(g)[k].kind = "section"
        env == IF "environment" \in DOMAIN Schema(g)
               THEN ("environment" :> Leaf(Text(ProviderValue("toml"))))
               ELSE NoItems
    IN  IF declares_timeout
        THEN (section :> Dict("socket_timeout" :> Leaf(NativeInt(TimeoutDefault)))) @@ env
        ELSE env

EnvNames == { <<"REDIS", "SOCKET_TIMEOUT">>, <<"redis", "socket_timeout">>,
              <<"REDIS_CONNECTION", "SOCKET_TIMEOUT">> }
AppSettingsGroups == {"AppSettings", "TomlAppSettings"}
AppSettingsInputs ==
    [group : AppSettingsGroups, name : EnvNames, declares_timeout : BOOLEAN,
     raw : {Text(15), Junk}]

\* AppSettings() with the file and the variable as given.
CallAppSettings ==
    /\ fn = "AppSettings"
    /\ ~result.called
    /\ LET out == SettingsInit(args.group, TRUE,
                      << toml_settings(args.group, args.declares_timeout),
                         NoItems,
                         env_settings(args.group, args.name, args.raw),
                         NoItems,
                         NoItems >>)
       IN  result' = IF out.ok THEN Return(out.value) ELSE Raise(out.error, out.errors)
    /\ UNCHANGED <<fn, args>>
    /\ UNCHANGED appVars
    /\ UNCHANGED resolverVars
    /\ UNCHANGED cacheVars

\* The Redis section of an application settings object.
RedisSection(g, value) == IF g = "AppSettings" THEN value.redis_connection ELSE value.redis

\* C13: with REDIS__SOCKET_TIMEOUT=15 set (in any case of letters), the
\* application settings resolve with the Redis section's socket_timeout
\* at the integer 15, whether or not the file declares the field at 5.
C13_RedisSocketTimeoutFromEnv ==
    ( /\ fn = "AppSettings" /\ result.called
      /\ lower(args.name[1]) = "redis"
      /\ args.raw = Text(15) ) =>
        /\ result.ok
        /\ RedisSection(args.group, result.value).socket_timeout = 15

----------------------------------------------------------------------------
(* The active environment's name, as each place derives it from the        *)
(* process environment (os.environ) and an optional override.              *)

EnvironmentNames == {"development", "production", "staging"}
\* What a variable or an argument may hold: nothing, the empty text, a name.
MaybeNames == {None, Str("")} \cup {Str(n) : n \in EnvironmentNames}
Environs == [APP_ENVIRONMENT : MaybeNames, ENVIRONMENT : MaybeNames]

\* Python truthiness of an optional text.
Truthy(value) == value # None /\ value # Str("")

\* os.getenv(key, default)
getenv(environ, key, default) ==
    IF environ[key] = None THEN default ELSE environ[key]

\* override or os.getenv('APP_ENVIRONMENT', 'development')
get_app_environment(environ, override) ==
    IF Truthy(override)
    THEN override
    ELSE getenv(environ, "APP_ENVIRONMENT", Str("development"))

\* The environment get_app_settings(environment=...) loads.
get_app_settings_environment(environ, environment) ==
    IF ~Truthy(environment)
    THEN getenv(environ, "ENVIRONMENT", Str("development"))
    ELSE environment

\* The environment the /version route reports.
get_deployment_config_environment(environ) ==
    getenv(environ, "ENVIRONMENT", Str("development"))

\* The three places asked under one process environment.
CallEnvironment ==
    /\ fn = "get_app_environment"
    /\ ~result.called
    /\ result' = Return(
          [get_app_environment |-> get_app_environment(args.environ, args.override),
           get_app_settings |-> get_app_settings_environment(args.environ, args.override),
           get_deployment_config |-> get_deployment_config_environment(args.environ)])
    /\ UNCHANGED <<fn, args>>
    /\ UNCHANGED appVars
    /\ UNCHANGED resolverVars
    /\ UNCHANGED cacheVars

\* C14: get_app_environment returns the override when one is given,
\* otherwise the deployment-environment variable when it is set, otherwise
\* "development"; and with no override get_app_environment,
\* get_app_settings and the /version route derive the same name from the
\* same process environment.
C14_OneEnvironmentName ==
    CalledOk("get_app_environment") =>
        /\ result.value.get_app_environment =
              IF Truthy(args.override) THEN args.override
              ELSE IF args.environ.APP_ENVIRONMENT # None THEN args.environ.APP_ENVIRONMENT
              ELSE Str("development")
        /\ ~Truthy(args.override) =>
              /\ result.value.get_app_settings = result.value.get_app_environment
              /\ result.value.get_deployment_config = result.value.get_app_environment

----------------------------------------------------------------------------
(* Locating the per-environment file.  A file name is the sequence of its  *)
(* parts between the dots (<<"config", "staging", "toml">> is              *)
(* config.staging.toml); a directory is a function from the names in it to *)
(* what each is, a regular file or a directory.                            *)

FileNames ==
    {<<"config", e, "toml">> : e \in EnvironmentNames}
        \cup {<<"app", "development", "toml">>, <<"staging", "toml">>, <<"logging", "toml">>}
Directories == UNION {[S -> {"file", "dir"}] : S \in SUBSET FileNames}

\* Path.exists() / os.path.exists(), Path.is_file()
exists(dir, name) == name \in DOMAIN dir
is_file(dir, name) == name \in DOMAIN dir /\ dir[name] = "file"

\* The regular files of the directory that Path.glob(pattern) yields, for
\* the patterns '*.toml' and 'app.*.toml'.
glob_files(dir, pattern) ==
    {name \in DOMAIN dir :
        /\ dir[name] = "file"
        /\ name[Len(name)] = "toml"
        /\ pattern = "app.*.toml" => (Len(name) >= 3 /\ name[1] = "app")}

_get_directory_tomls(dir) == glob_files(dir, "*.toml")

\* verify_toml_path(dirname, filename), in the directory's content.
verify_toml_path(dir, filename) ==
    IF ~exists(dir, filename) \/ ~is_file(dir, filename)
    THEN Raise("FileNotFoundError",
               [path |-> filename, known_files |-> _get_directory_tomls(dir)])
    ELSE Return(filename)

know_app_settings(dir) == glob_files(dir, "app.*.toml")

\* The file check of app.core.settings.get_app_settings and the file it
\* then names to AppSettings.
get_app_settings_toml(dir, environment) ==
    IF ~exists(dir, <<environment, "toml">>)
    THEN Raise("FileNotFoundError",
               [path |-> <<environment, "toml">>, known_files |-> know_app_settings(dir)])
    ELSE Return(<<"app", environment, "toml">>)

LocateInputs == [dir : Directories, environment : EnvironmentNames]

CallVerifyTomlPath ==
    /\ fn = "verify_toml_path"
    /\ ~result.called
    /\ result' = verify_toml_path(args.dir, <<"config", args.environment, "toml">>)
    /\ UNCHANGED <<fn, args>>
    /\ UNCHANGED appVars
    /\ UNCHANGED resolverVars
    /\ UNCHANGED cacheVars

CallGetAppSettingsToml ==
    /\ fn = "get_app_settings"
    /\ ~result.called
    /\ result' = get_app_settings_toml(args.dir, args.environment)
    /\ UNCHANGED <<fn, args>>
    /\ UNCHANGED appVars
    /\ UNCHANGED resolverVars
    /\ UNCHANGED cacheVars

\* The path a function checks for the environment, and the kind of
\* per-environment file it lists.
CheckedPath(f, environment) ==
    IF f = "verify_toml_path" THEN <<"config", environment, "toml">>
    ELSE <<environment, "toml">>
ListedKind(f) == IF f = "verify_toml_path" THEN "config" ELSE "app"

\* The regular files <kind>.<environment>.toml of the directory.
PerEnvironmentFiles(dir, kind) ==
    {name \in DOMAIN dir :
        dir[name] = "file" /\ Len(name) = 3 /\ name[1] = kind /\ name[3] = "toml"}

\* C15: when the file checked for the requested environment does not
\* exist or is no regular file, the function raises FileNotFoundError with
\* the path it tried and exactly the per-environment files that exist in
\* the directory.
C15_NotFoundListsSiblings ==
    ( /\ fn \in {"verify_toml_path", "get_app_settings"}
      /\ result.called
      /\ ~is_file(args.dir, CheckedPath(fn, args.environment)) ) =>
        /\ ~result.ok
        /\ result.error = "FileNotFoundError"
        /\ result.info.path = CheckedPath(fn, args.environment)
        /\ result.info.known_files = PerEnvironmentFiles(args.dir, ListedKind(fn))

----------------------------------------------------------------------------
(* The PEM envelope check.  In a PEM text the model writes "-" for the     *)
(* five dashes, "B" for BEGIN, "E" for END, "L" for a label with its       *)
(* leading blank and "x" for a line of the body: the begin line            *)
(* -----BEGIN <LABEL>----- is <<"-", "B", "L", "-">>, and the literal      *)
(* '-----BEGIN' the function looks for is <<"-", "B">>.                    *)

\* str.startswith(prefix), str.endswith(suffix)
startswith(text, prefix) ==
    Len(text) >= Len(prefix) /\ SubSeq(text, 1, Len(prefix)) = prefix
endswith(text, suffix) ==
    Len(text) >= Len(suffix) /\ SubSeq(text, Len(text) - Len(suffix) + 1, Len(text)) = suffix

\* _verify_pem_headers: the value back, or ValueError.
_verify_pem_headers(pem) ==
    IF ~(startswith(pem, <<"-", "B">>) /\ endswith(strip(pem), <<"-", "E">>))
    THEN Raise("ValueError", "PEM key must start with '-----BEGIN' and end with '-----END'.")
    ELSE Return(pem)

BeginLine == <<"-", "B", "L", "-">>
EndLine == <<"-", "E", "L", "-">>

\* The texts tried: an optional leading blank, nothing or '-----BEGIN' or
\* the begin line, a body or none, nothing or '-----END' or the end line,
\* and trailing whitespace or none.
PemTexts ==
    { lead \o begin \o body \o end \o trail :
        lead \in {<<>>, <<" ">>},
        begin \in {<<>>, <<"-", "B">>, BeginLine \o <<"\n">>},
        body \in {<<>>, <<"x", "\n">>},
        end \in {<<>>, <<"-", "E">>, EndLine},
        trail \in {<<>>, <<"\n">>, <<" ", "\n">>} }

\* The raw value of a PEM-typed field holding the text, as the resolution
\* pass sees it: a text that passes the envelope check or does not.
PemRaw(text) ==
    [form |-> "str", num |-> FALSE, n |-> 0, pem |-> _verify_pem_headers(text).ok]

\* The check applied to the text, and JWKSecrets constructed with the text
\* as its private key.
CallVerifyPemHeaders ==
    /\ fn = "_verify_pem_headers"
    /\ ~result.called
    /\ LET out == SettingsInit("JWKSecrets", TRUE,
                      << ("private_key" :> Leaf(PemRaw(args.pem))), NoItems, NoItems, NoItems >>)
       IN  result' = [called |-> TRUE,
                      ok |-> _verify_pem_headers(args.pem).ok,
                      checked |-> _verify_pem_headers(args.pem),
                      settings |-> out]
    /\ UNCHANGED <<fn, args>>
    /\ UNCHANGED appVars
    /\ UNCHANGED resolverVars
    /\ UNCHANGED cacheVars

PemChecked == fn = "_verify_pem_headers" /\ result.called

\* C16: a text that does not start with the begin line, or that after
\* trimming does not end with the end line, fails the check with a
\* ValueError, and the settings group holding it fails to resolve.
C16_BadEnvelopeFails ==
    ( /\ PemChecked
      /\ ~startswith(args.pem, BeginLine) \/ ~endswith(strip(args.pem), EndLine) ) =>
        /\ ~result.checked.ok
        /\ result.checked.error = "ValueError"
        /\ ~result.settings.ok
        /\ Error(<<"private_key">>, "value_error") \in result.settings.errors

\* C17: a text that starts with the begin line and whose last content
\* before any trailing whitespace is the end line passes the check.
C17_WellFormedPasses ==
    ( /\ PemChecked
      /\ startswith(args.pem, BeginLine)
      /\ endswith(strip(args.pem), EndLine) ) =>
        /\ result.checked.ok
        /\ result.settings.ok

----------------------------------------------------------------------------
(* The port fields.  Every class that declares a port, with the type it    *)
(* declares it with: PortNumber on the secrets sections, a plain int on    *)
(* SecretSettings and ServerConfig.                                        *)

PortDefaultRedis == 6379
PortDefaultServer == 8000

RedisSecrets ==
    [hostname |-> Field("str", FALSE, 0),
     port |-> Field("port", TRUE, PortDefaultRedis)]

ServerConfig == [port |-> Field("int", TRUE, PortDefaultServer)]

PortClasses == {"PostgresSecrets", "RedisSecrets", "SecretSettings", "ServerConfig"}

PortSchema(class) ==
    CASE class = "PostgresSecrets" -> PostgresSecrets
      [] class = "RedisSecrets" -> RedisSecrets
      [] class = "SecretSettings" -> SecretSettings
      [] class = "ServerConfig" -> ServerConfig

PortField(class) == IF class = "SecretSettings" THEN "PG_PORT" ELSE "port"

\* The numbers tried, as a native integer and as a numeral.
PortNumbers == {PortMin - 1, PortMin, PortDefaultServer, PortMax, PortMax + 1}
PortInputs ==
    [class : PortClasses, raw : {NativeInt(n) : n \in PortNumbers} \cup {Text(n) : n \in PortNumbers}]

\* The class validated with the number as its port, its other fields given.
CallValidatePort ==
    /\ fn = "PortNumber"
    /\ ~result.called
    /\ LET fields == PortSchema(args.class)
           items == [k \in DOMAIN fields |->
                        IF k = PortField(args.class) THEN Leaf(args.raw)
                        ELSE Leaf(ProviderRaw("init", fields[k].type))]
           r == validate_model(fields, items, <<>>)
       IN  result' = [called |-> TRUE, ok |-> r.errors = {}, errors |-> r.errors, value |-> r.value]
    /\ UNCHANGED <<fn, args>>
    /\ UNCHANGED appVars
    /\ UNCHANGED resolverVars
    /\ UNCHANGED cacheVars

\* C18: every port field accepts exactly the numbers 1..65535, and refuses
\* any other with a range error on the field.
C18_PortRange ==
    (fn = "PortNumber" /\ result.called) =>
        LET loc == <<PortField(args.class)>>
        IN  IF args.raw.n \in PortMin..PortMax
            THEN result.ok /\ result.value[PortField(args.class)] = args.raw.n
            ELSE /\ ~result.ok
                 /\ \/ Error(loc, "greater_than_equal") \in result.errors
                    \/ Error(loc, "less_than_equal") \in result.errors

----------------------------------------------------------------------------
(* The Redis connection URL.  A text is the sequence of its characters;    *)
(* an optional text is None or Str of such a sequence.                     *)

DbMin == 0
DbMax == 15

Digit == <<"0", "1", "2", "3", "4", "5", "6", "7", "8", "9">>

\* str(n) of an integer, as an f-string formats it.
RECURSIVE str(_)
str(n) ==
    IF n < 0 THEN <<"-">> \o str(0 - n)
    ELSE IF n < 10 THEN <<Digit[n + 1]>>
    ELSE str(n \div 10) \o <<Digit[(n % 10) + 1]>>

\* The characters quote_plus leaves as they are, and the two hexadecimal
\* digits of each other character's code.
Unreserved == {"a", "h"} \cup Range(Digit)
HexCode(c) ==
    CASE c = " " -> <<"2", "0">>
      [] c = "#" -> <<"2", "3">>
      [] c = "%" -> <<"2", "5">>
      [] c = "+" -> <<"2", "B">>
      [] c = "/" -> <<"2", "F">>
      [] c = ":" -> <<"3", "A">>
      [] c = "?" -> <<"3", "F">>
      [] c = "@" -> <<"4", "0">>
Reserved == {" ", "#", "%", "+", "/", ":", "?", "@"}

\* urllib.parse.quote_plus: a blank becomes '+', an unreserved character
\* stays, any other becomes '%' and its code.
RECURSIVE quote_plus(_)
quote_plus(text) ==
    IF text = <<>> THEN <<>>
    ELSE LET c == Head(text)
         IN  (IF c = " " THEN <<"+">>
              ELSE IF c \in Unreserved THEN <<c>>
              ELSE <<"%">> \o HexCode(c)) \o quote_plus(Tail(text))

\* Python truthiness of an optional text.
NonEmpty(value) == value.type = "str" /\ value.v # <<>>

\* The message of the ValueError, "Redis database number must be between
\* 0 and 15.": what it is about, and the numerals written in it.
DbRangeMessage == [subject |-> "Redis database number", numerals |-> {str(DbMin), str(DbMax)}]

create_redis_url(db, username, password, hostname, port, ssl) ==
    IF db < DbMin \/ db > DbMax
    THEN Raise("ValueError", DbRangeMessage)
    ELSE LET scheme == IF ssl THEN <<"r", "e", "d", "i", "s", "s">> ELSE <<"r", "e", "d", "i", "s">>
             auth_part ==
                 IF NonEmpty(username) /\ NonEmpty(password)
                 THEN quote_plus(username.v) \o <<":">> \o quote_plus(password.v) \o <<"@">>
                 ELSE IF NonEmpty(password)
                 THEN <<":">> \o quote_plus(password.v) \o <<"@">>
                 ELSE <<>>
         IN  Return(scheme \o <<":", "/", "/">> \o auth_part \o hostname \o <<":">> \o str(port)
                        \o <<"/">> \o str(db))

\* RedisSecrets.get_url
get_url(self, db) ==
    IF db < DbMin \/ db > DbMax
    THEN Raise("ValueError", DbRangeMessage)
    ELSE create_redis_url(db, self.username, self.password, self.hostname, self.port, self.ssl)

\* The arguments tried: database numbers around the range, credentials
\* absent, empty, one character long, or an "a" and one more character.
DbNumbers == {DbMin - 1, DbMin, 7, DbMax, DbMax + 1}
CredentialAlphabet == {"a"} \cup Reserved
Credentials ==
    {None} \cup {Str(t) : t \in Texts(CredentialAlphabet, 1)}
           \cup {Str(<<"a", c>>) : c \in CredentialAlphabet}
RedisUrlInputs ==
    [db : DbNumbers, username : Credentials, password : Credentials,
     hostname : {<<"h">>}, port : {PortDefaultRedis}, ssl : BOOLEAN]

CallCreateRedisUrl ==
    /\ fn = "create_redis_url"
    /\ ~result.called
    /\ result' = create_redis_url(args.db, args.username, args.password, args.hostname,
                                  args.port, args.ssl)
    /\ UNCHANGED <<fn, args>>
    /\ UNCHANGED appVars
    /\ UNCHANGED resolverVars
    /\ UNCHANGED cacheVars

CallGetUrl ==
    /\ fn = "get_url"
    /\ ~result.called
    /\ result' = get_url(args, args.db)
    /\ UNCHANGED <<fn, args>>
    /\ UNCHANGED appVars
    /\ UNCHANGED resolverVars
    /\ UNCHANGED cacheVars

UrlBuilt == fn \in {"create_redis_url", "get_url"} /\ result.called

\* C19: a database number is accepted exactly when it is in 0..15: a number
\* in the range gives a URL ending in "/" and the number; any other gives,
\* from both functions, an error whose message names the field, the number
\* given and the range.
C19_DbRange ==
    UrlBuilt =>
        IF args.db \in DbMin..DbMax
        THEN result.ok /\ endswith(result.value, <<"/">> \o str(args.db))
        ELSE /\ ~result.ok
             /\ result.error = "ValueError"
             /\ result.info.subject = "Redis database number"
             /\ {str(DbMin), str(DbMax)} \subseteq result.info.numerals
             /\ str(args.db) \in result.info.numerals

\* Reading a URL back: the text before and after the first or the last
\* occurrence of a delimiter (the whole text before, nothing after, where
\* the delimiter does not occur).
Occurs(text, sep) ==
    {i \in 1..(Len(text) - Len(sep) + 1) : SubSeq(text, i, i + Len(sep) - 1) = sep}
First(text, sep) == CHOOSE i \in Occurs(text, sep) : \A j \in Occurs(text, sep) : i <= j
Last(text, sep) == CHOOSE i \in Occurs(text, sep) : \A j \in Occurs(text, sep) : j <= i
Before(text, sep, i) == SubSeq(text, 1, i - 1)
After(text, sep, i) == SubSeq(text, i + Len(sep), Len(text))

\* Percent-decoding: '%' and two hexadecimal digits become the character
\* of that code, every other character stays.
Decoded(code) == CHOOSE c \in Reserved : HexCode(c) = code
RECURSIVE unquote(_)
unquote(text) ==
    IF text = <<>> THEN <<>>
    ELSE IF /\ Head(text) = "%"
            /\ Len(text) >= 3
            /\ \E c \in Reserved : HexCode(c) = SubSeq(text, 2, 3)
    THEN <<Decoded(SubSeq(text, 2, 3))>> \o unquote(SubSeq(text, 4, Len(text)))
    ELSE <<Head(text)>> \o unquote(Tail(text))

\* int(text) of a numeral without sign.
RECURSIVE int(_)
int(text) ==
    IF text = <<>> THEN 0
    ELSE int(SubSeq(text, 1, Len(text) - 1)) * 10
         + (CHOOSE d \in 0..9 : Digit[d + 1] = text[Len(text)])

\* The URL split at '://', at the last '@', at the ':' between the user
\* and the password, and at the ':' and '/' after the host.
UrlParts(url) ==
    LET rest == After(url, <<":", "/", "/">>, First(url, <<":", "/", "/">>))
        has_auth == Occurs(rest, <<"@">>) # {}
        userinfo == IF has_auth THEN Before(rest, <<"@">>, Last(rest, <<"@">>)) ELSE <<>>
        location == IF has_auth THEN After(rest, <<"@">>, Last(rest, <<"@">>)) ELSE rest
        has_password == Occurs(userinfo, <<":">>) # {}
        user == IF has_password THEN Before(userinfo, <<":">>, First(userinfo, <<":">>)) ELSE userinfo
        pass == IF has_password THEN After(userinfo, <<":">>, First(userinfo, <<":">>)) ELSE <<>>
        host == Before(location, <<":">>, First(location, <<":">>))
        numbers == After(location, <<":">>, First(location, <<":">>))
    IN  [scheme |-> Before(url, <<":", "/", "/">>, First(url, <<":", "/", "/">>)),
         username |-> unquote(user),
         password |-> unquote(pass),
         hostname |-> host,
         port |-> int(Before(numbers, <<"/">>, First(numbers, <<"/">>))),
         db |-> int(After(numbers, <<"/">>, First(numbers, <<"/">>)))]

\* sqlalchemy's URL.create: the URL object holding the components given,
\* None for one not given.
URL_create(drivername, username, password, host, port, database) ==
    [drivername |-> drivername, username |-> username, password |-> password,
     host |-> host, port |-> port, database |-> database]

\* PostgresSecrets.get_url
PostgresSecrets_get_url(self) ==
    Return(URL_create("postgresql+asyncpg", self.user, self.password, self.hostname,
                      self.port, self.database_name))

\* create_postgres_url, the secrets given or read from get_secret_settings.
create_postgres_url(drivername, secrets) ==
    Return(URL_create(drivername, secrets.PG_USER, None, secrets.PG_HOSTNAME,
                      secrets.PG_PORT, secrets.PG_DATABASE_NAME))

PostgresUrlInputs ==
    [username : Credentials \ {None, Str(<<>>)}, password : Credentials \ {None, Str(<<>>)},
     hostname : {Str(<<"h">>)}, port : {PortDefaultPg}, database : {Str(<<"a">>)}]

CallPostgresGetUrl ==
    /\ fn = "PostgresSecrets.get_url"
    /\ ~result.called
    /\ result' = PostgresSecrets_get_url(
                     [user |-> args.username, password |-> args.password,
                      database_name |-> args.database, hostname |-> args.hostname,
                      port |-> args.port])
    /\ UNCHANGED <<fn, args>>
    /\ UNCHANGED appVars
    /\ UNCHANGED resolverVars
    /\ UNCHANGED cacheVars

CallCreatePostgresUrl ==
    /\ fn = "create_postgres_url"
    /\ ~result.called
    /\ result' = create_postgres_url("postgresql+asyncpg",
                     [PG_USER |-> args.username, PG_PASSWORD |-> args.password,
                      PG_DATABASE_NAME |-> args.database, PG_HOSTNAME |-> args.hostname,
                      PG_PORT |-> args.port])
    /\ UNCHANGED <<fn, args>>
    /\ UNCHANGED appVars
    /\ UNCHANGED resolverVars
    /\ UNCHANGED cacheVars

\* C20: for a user name and a password, whatever characters they hold, the
\* connection URL carries both: the Redis URL read back gives the host, the
\* port and the database number it was built from, and its user-info part
\* percent-decoded gives the user name and the password; the Postgres URL
\* holds the user name, the password, the host, the port and the database.
C20_CredentialsRoundTrip ==
    /\ ( /\ UrlBuilt
         /\ result.ok
         /\ NonEmpty(args.username)
         /\ NonEmpty(args.password) ) =>
           LET parts == UrlParts(result.value)
           IN  /\ parts.hostname = args.hostname
               /\ parts.port = args.port
               /\ parts.db = args.db
               /\ parts.username = args.username.v
               /\ parts.password = args.password.v
    /\ (fn \in {"PostgresSecrets.get_url", "create_postgres_url"} /\ result.called) =>
           /\ result.ok
           /\ result.value.username = args.username
           /\ result.value.password = args.password
           /\ result.value.host = args.hostname
           /\ result.value.port = args.port
           /\ result.value.database = args.database

\* The same, of a credential without a blank in the Redis URL and of
\* PostgresSecrets.get_url alone.
CredentialsRoundTripElsewhere ==
    /\ ( /\ UrlBuilt
         /\ result.ok
         /\ NonEmpty(args.username)
         /\ NonEmpty(args.password)
         /\ " " \notin Range(args.username.v) \cup Range(args.password.v) ) =>
           LET parts == UrlParts(result.value)
           IN  /\ parts.hostname = args.hostname
               /\ parts.port = args.port
               /\ parts.db = args.db
               /\ parts.username = args.username.v
               /\ parts.password = args.password.v
    /\ (fn = "PostgresSecrets.get_url" /\ result.called) =>
           /\ result.value.username = args.username
           /\ result.value.password = args.password

----------------------------------------------------------------------------
(* The secrets directory of JWKSecrets.  The file-secrets source reads,    *)
(* for each field, the file of the directory that has the field's name     *)
(* (case ignored), and returns nothing for a field without a file or when  *)
(* the directory does not exist.                                           *)

SecretFileNames == {"jwt_private_key", "private_key", "PRIVATE_KEY"}

SecretsDirs ==
    {[exists |-> FALSE, files |-> {}]}
        \cup {[exists |-> TRUE, files |-> f] : f \in SUBSET SecretFileNames}

\* file_secret_settings(): the fields found in the directory.
file_secret_settings(g, dir) ==
    LET fields == Schema(g)
        found == {k \in DOMAIN fields :
                     dir.exists /\ \E f \in dir.files : lower(f) = lower(k)}
    IN  [k \in found |-> Leaf(ProviderRaw("secrets", fields[k].type))]

SecretsDirInputs ==
    [dir : SecretsDirs, init : BOOLEAN, env : BOOLEAN]

\* JWKSecrets(...) with the directory as it is, the private key given to
\* the constructor or set in the environment or neither.
CallJWKSecrets ==
    /\ fn = "JWKSecrets"
    /\ ~result.called
    /\ LET given(p, on) ==
               IF on THEN ("private_key" :> Leaf(ProviderRaw(p, "pem"))) ELSE NoItems
           out == SettingsInit("JWKSecrets", TRUE,
                      << given("init", args.init), given("env", args.env), NoItems,
                         file_secret_settings("JWKSecrets", args.dir) >>)
       IN  result' = [called |-> TRUE, ok |-> out.ok, settings |-> out]
    /\ UNCHANGED <<fn, args>>
    /\ UNCHANGED appVars
    /\ UNCHANGED resolverVars
    /\ UNCHANGED cacheVars

\* C22: a file jwt_private_key with PEM content in the secrets directory
\* populates the private key; a missing directory or file is no error of
\* its own, and resolution fails only when nothing supplies the key, with
\* a missing-field error.
C22_SecretsDirectory ==
    (fn = "JWKSecrets" /\ result.called) =>
        LET supplied == args.init \/ args.env
            in_file == args.dir.exists /\ "jwt_private_key" \in args.dir.files
        IN  /\ in_file => result.ok
            /\ (in_file /\ ~supplied) =>
                   result.settings.value.private_key = ProviderRaw("secrets", "pem")
            /\ ~result.ok =>
                   /\ ~supplied
                   /\ result.settings.errors = {Error(<<"private_key">>, "missing")}

\* The same of a file that has the field's own name, private_key, in any
\* case of its letters.
SecretsDirectoryByFieldName ==
    (fn = "JWKSecrets" /\ result.called) =>
        LET supplied == args.init \/ args.env
            in_file == args.dir.exists /\ args.dir.files \cap {"private_key", "PRIVATE_KEY"} # {}
        IN  /\ (in_file \/ supplied) <=> result.ok
            /\ (in_file /\ ~supplied) =>
                   result.settings.value.private_key = ProviderRaw("secrets", "pem")
            /\ ~result.ok =>
                   result.settings.errors = {Error(<<"private_key">>, "missing")}

----------------------------------------------------------------------------
(* Settings.model_dump_env.  A dict is the sequence of its items in        *)
(* insertion order, an item the pair <<key, value>>.  An environment       *)
(* variable's name is the sequence of the pieces it is concatenated from   *)
(* (field names and "_" characters), so that the nested delimiter "__" is  *)
(* two "_" pieces in a row; a value's text is the sequence of its          *)
(* characters.                                                             *)

\* Python values of a settings object, by their type.
PyBool(b) == [type |-> "bool", v |-> b]
PyInt(n) == [type |-> "int", v |-> n]
SecretStr(text) == [type |-> "SecretStr", v |-> text]
PyDict(items) == [type |-> "dict", v |-> items]
Model(fields, values, fields_set) ==
    [type |-> "model", fields |-> fields, v |-> values, fields_set |-> fields_set]

\* str.upper() on the names of the model.
upper(part) ==
    CASE part \in {"DEBUG", "debug"} -> "DEBUG"
      [] part \in {"HOSTS", "hosts"} -> "HOSTS"
      [] part \in {"PRIVATE_KEY", "private_key"} -> "PRIVATE_KEY"
      [] part \in {"REDIS_CONNECTION", "redis_connection"} -> "REDIS_CONNECTION"
      [] part \in {"SOCKET_TIMEOUT", "socket_timeout"} -> "SOCKET_TIMEOUT"
      [] OTHER -> part

\* sep.join(items)
RECURSIVE join(_, _)
join(sep, items) ==
    IF items = <<>> THEN <<>>
    ELSE IF Len(items) = 1 THEN items[1]
    ELSE items[1] \o <<sep>> \o join(sep, Tail(items))

\* _env_serialize_field: a secret's plain value, str(bool).lower(), the
\* comma-joined str() of a sequence's elements, str() of anything else.
_env_serialize_field(attr_val) ==
    CASE attr_val.type = "SecretStr" -> attr_val.v
      [] attr_val.type = "bool" ->
             IF attr_val.v THEN <<"t", "r", "u", "e">> ELSE <<"f", "a", "l", "s", "e">>
      [] attr_val.type = "list" -> join(",", attr_val.v)
      [] OTHER -> str(attr_val.v)

\* env_dict[key] = value and env_dict.update(other), on a mapping as the
\* function from its keys.
SetItem(mapping, key, value) ==
    [k \in DOMAIN mapping \cup {key} |-> IF k = key THEN value ELSE mapping[k]]
update(mapping, other) ==
    [k \in DOMAIN mapping \cup DOMAIN other |->
        IF k \in DOMAIN other THEN other[k] ELSE mapping[k]]

\* env_model_dump_serializer: the key is the prefix and the upper-cased
\* field name; a nested dict is serialized under the prefix f"{env_key}_".
RECURSIVE env_model_dump_serializer(_, _)
env_model_dump_serializer(current, prefix) ==
    IF current = <<>> THEN <<>>
    ELSE LET n == Len(current)
             key == current[n][1]
             value == current[n][2]
             env_key == [i \in DOMAIN prefix |-> upper(prefix[i])] \o <<upper(key)>>
             env_dict == env_model_dump_serializer(SubSeq(current, 1, n - 1), prefix)
         IN  IF value.type = "dict"
             THEN update(env_dict, env_model_dump_serializer(value.v, env_key \o <<"_">>))
             ELSE SetItem(env_dict, env_key, _env_serialize_field(value))

\* self.model_dump(by_alias=True, exclude_unset=True): the set fields in
\* declaration order, a section as the dict of its own set fields.
RECURSIVE model_dump(_)
model_dump(obj) ==
    LET names == SelectSeq(obj.fields, LAMBDA name : name \in obj.fields_set)
    IN  [i \in 1..Len(names) |->
            <<names[i],
              IF obj.v[names[i]].type = "model"
              THEN PyDict(model_dump(obj.v[names[i]]))
              ELSE obj.v[names[i]]>>]

model_dump_env(obj, prefix) == env_model_dump_serializer(model_dump(obj), prefix)

\* A settings class of Settings: three fields and one section of one field.
SettingsFields == <<"debug", "hosts", "private_key", "redis_connection">>
SectionFields == <<"socket_timeout">>
Declared ==
    [debug |-> "bool", hosts |-> "list", private_key |-> "SecretStr",
     redis_connection |-> "model", socket_timeout |-> "int"]
UnsetSection == Model(SectionFields, [socket_timeout |-> PyInt(TimeoutDefault)], {})
Defaults ==
    [debug |-> PyBool(FALSE), hosts |-> List(<<>>), private_key |-> SecretStr(<<"a">>),
     redis_connection |-> UnsetSection]

\* The values a field is set to.
FieldValues(name) ==
    CASE name = "debug" -> {PyBool(b) : b \in BOOLEAN}
      [] name = "hosts" -> {List(<<>>), List(<<(<<"a">>)>>), List(<<(<<"a">>), <<"b">>>>)}
      [] name = "private_key" -> {SecretStr(<<"a">>), SecretStr(<<"b">>)}
      [] name = "redis_connection" ->
             {Model(SectionFields, [socket_timeout |-> PyInt(n)], {"socket_timeout"}) :
                 n \in {TimeoutDefault, 15}}

\* The objects of the class: every field not set holds its default.
SettingsObjects ==
    {Model(SettingsFields, values, fields_set) :
        <<values, fields_set>> \in
            {pair \in [DOMAIN Defaults -> UNION {FieldValues(name) \cup {Defaults[name]} :
                                                    name \in DOMAIN Defaults}]
                      \X SUBSET DOMAIN Defaults :
                \A name \in DOMAIN Defaults :
                    IF name \in pair[2] THEN pair[1][name] \in FieldValues(name)
                    ELSE pair[1][name] = Defaults[name]}}

\* The environment source of Settings (case_sensitive False,
\* env_nested_delimiter '__'): the text of the variable whose lower-cased
\* name is the given one, or None.
LowerName(name) == [i \in DOMAIN name |-> lower(name[i])]
EnvVar(environ, name) ==
    IF \E k \in DOMAIN environ : LowerName(k) = name
    THEN Str(environ[CHOOSE k \in DOMAIN environ : LowerName(k) = name])
    ELSE None

\* The validation of a variable's text as the declared type: a list field
\* is decoded as JSON by the source, a decoding error is a SettingsError.
FromEnv(name, text) ==
    CASE Declared[name] = "bool" /\ text \in {<<"t", "r", "u", "e">>, <<"f", "a", "l", "s", "e">>} ->
             Return(PyBool(text = <<"t", "r", "u", "e">>))
      [] Declared[name] = "int" /\ text # <<>> /\ Range(text) \subseteq Range(Digit) ->
             Return(PyInt(int(text)))
      [] Declared[name] = "SecretStr" -> Return(SecretStr(text))
      [] Declared[name] = "list" /\ IsJsonArray(text) -> Return(List(json_loads(text)))
      [] Declared[name] = "list" -> Raise("SettingsError", "json")
      [] OTHER -> Raise("ValidationError", name)

\* The variable of a field: FIELD for a field of the class,
\* SECTION__FIELD for a field of a section.
VarOf(environ, section, name) ==
    EnvVar(environ, IF section = "" THEN <<name>> ELSE <<section, "_", "_", name>>)

\* The settings loaded with the mapping as the environment and nothing
\* else supplied.
LoadFields(environ, section, fields) ==
    LET found == {fields[i] : i \in {j \in 1..Len(fields) :
                      /\ Declared[fields[j]] # "model"
                      /\ VarOf(environ, section, fields[j]) # None}}
        loaded == [name \in found |-> FromEnv(name, VarOf(environ, section, name).v)]
    IN  [found |-> found, loaded |-> loaded]

LoadEnviron(environ) ==
    LET top == LoadFields(environ, "", SettingsFields)
        sub == LoadFields(environ, "redis_connection", SectionFields)
        section == Model(SectionFields,
                         [name \in Range(SectionFields) |->
                             IF name \in sub.found THEN sub.loaded[name].value
                             ELSE UnsetSection.v[name]],
                         sub.found)
        failed == {name \in top.found : ~top.loaded[name].ok}
                  \cup {name \in sub.found : ~sub.loaded[name].ok}
    IN  IF failed # {}
        THEN LET name == CHOOSE f \in failed : TRUE
             IN  IF name \in top.found THEN top.loaded[name] ELSE sub.loaded[name]
        ELSE Return(Model(SettingsFields,
                          [name \in Range(SettingsFields) |->
                              IF name = "redis_connection"
                              THEN (IF sub.found # {} THEN section ELSE UnsetSection)
                              ELSE IF name \in top.found THEN top.loaded[name].value
                              ELSE Defaults[name]],
                          top.found \cup (IF sub.found # {} THEN {"redis_connection"} ELSE {})))

ModelDumpEnvInputs == [self : SettingsObjects, prefix : {<<>>}]

CallModelDumpEnv ==
    /\ fn = "model_dump_env"
    /\ ~result.called
    /\ result' = Return(model_dump_env(args.self, args.prefix))
    /\ UNCHANGED <<fn, args>>
    /\ UNCHANGED appVars
    /\ UNCHANGED resolverVars
    /\ UNCHANGED cacheVars

\* C29: loading the mapping model_dump_env emits as the environment
\* reproduces the settings object it was emitted from: every set field, at
\* any nesting depth, has a key the environment source maps back to its
\* path and a text that validates to its value.
C29_EnvRoundTrip ==
    (fn = "model_dump_env" /\ result.called) =>
        /\ result.ok
        /\ LoadEnviron(result.value) = Return(args.self)

\* The fields of the class itself that are a bool or a secret do make the
\* round trip.
ScalarFieldsRoundTrip ==
    (/\ fn = "model_dump_env" /\ result.called
     /\ args.self.fields_set \subseteq {"debug", "private_key"}) =>
        /\ result.ok
        /\ LoadEnviron(result.value) = Return(args.self)

\* The helper functions' calls.
InitCalls ==
    /\ ResolverIdle
    /\ CacheIdle
    /\ hist = HistInit("off")
    /\ result = NotCalled
    /\ AppIdle
    /\ \/ fn = "parse_env_sequence" /\ args \in ParseInputs
       \/ /\ fn = "prepare_field_value"
          /\ args \in [depth : 1..2, shape : Shapes, delimiter : BOOLEAN,
                       value : {None} \cup {Str(v) : v \in EnvValues}]
       \/ fn = "AppSettings" /\ args \in AppSettingsInputs
       \/ fn = "get_app_environment" /\ args \in [environ : Environs, override : MaybeNames]
       \/ fn \in {"verify_toml_path", "get_app_settings"} /\ args \in LocateInputs
       \/ fn = "_verify_pem_headers" /\ args \in [pem : PemTexts]
       \/ fn = "PortNumber" /\ args \in PortInputs
       \/ fn = "JWKSecrets" /\ args \in SecretsDirInputs
       \/ fn = "model_dump_env" /\ args \in ModelDumpEnvInputs
       \/ fn \in {"create_redis_url", "get_url"} /\ args \in RedisUrlInputs
       \/ fn \in {"PostgresSecrets.get_url", "create_postgres_url"} /\ args \in PostgresUrlInputs

NextCalls ==
    \/ CallParseEnvSequence
    \/ CallPrepareFieldValue
    \/ CallAppSettings
    \/ CallEnvironment
    \/ CallVerifyTomlPath
    \/ CallGetAppSettingsToml
    \/ CallVerifyPemHeaders
    \/ CallValidatePort
    \/ CallJWKSecrets
    \/ CallModelDumpEnv
    \/ CallCreateRedisUrl
    \/ CallGetUrl
    \/ CallPostgresGetUrl
    \/ CallCreatePostgresUrl

SpecCalls == InitCalls /\ [][NextCalls]_vars

----------------------------------------------------------------------------
(* The derived artifacts of a secrets object.  The key objects and their   *)
(* byte forms are cached properties of JWKSecrets (functools'              *)
(* cached_property stores what the function returns in the instance's      *)
(* __dict__, and the attribute is read from there afterwards); the         *)
(* connection URLs are built by the plain methods get_url.                 *)

MaxAccesses == 4

SecretClasses == {"JWKSecrets", "PostgresSecrets", "RedisSecrets"}

Artifacts(class) ==
    CASE class = "JWKSecrets" ->
            {"_rsa_private_key", "_rsa_public_key", "private_key_signer", "public_key_verifier"}
      [] class = "PostgresSecrets" -> {"get_url"}
      [] class = "RedisSecrets" -> {"get_url"}

AllArtifacts == UNION {Artifacts(class) : class \in SecretClasses}

\* The attributes declared with @cached_property.
CachedProperties ==
    {"_rsa_private_key", "_rsa_public_key", "private_key_signer", "public_key_verifier"}

\* The cached property a cached property reads while it is computed.
Needs(artifact) ==
    CASE artifact = "private_key_signer" -> {"_rsa_private_key"}
      [] artifact = "public_key_verifier" -> {"_rsa_public_key"}
      [] OTHER -> {}

\* A fresh instance: nothing stored on it, nothing computed.  loads says
\* whether cryptography can load the instance's keys.
NewInstance(class, loads) ==
    [class |-> class,
     loads |-> loads,
     dict |-> {},
     computed |-> [a \in AllArtifacts |-> 0],
     accesses |-> <<>>,
     last |-> [artifact |-> "none", ok |-> FALSE, run |-> 0]]

InitDerived ==
    /\ ResolverIdle
    /\ CacheIdle
    /\ hist = HistInit("off")
    /\ fn = "none"
    /\ args = <<>>
    /\ result = NotCalled
    /\ life = <<>>
    /\ http = <<>>
    /\ inst \in {NewInstance(class, loads) : class \in SecretClasses, loads \in BOOLEAN}

\* What the instance holds after the artifact and the cached properties it
\* needed were computed: cached_property's cache[attrname] = val.
Stored(dict, artifact, missing) == dict \cup (missing \cap CachedProperties)

\* One access of an artifact: a stored cached property is read from the
\* instance; otherwise the function runs (and the cached properties it
\* reads, where they are not stored yet), and raises where the key does not
\* load, storing nothing.  run is the number of the computation whose
\* result the access returns.
Access(artifact) ==
    /\ inst # <<>>
    /\ artifact \in Artifacts(inst.class)
    /\ Len(inst.accesses) < MaxAccesses
    /\ LET missing == ({artifact} \cup Needs(artifact)) \ inst.dict
           fails == inst.class = "JWKSecrets" /\ ~inst.loads /\ missing # {}
       IN  inst' =
             IF fails
             THEN [inst EXCEPT !.accesses = Append(@, artifact),
                               !.last = [artifact |-> artifact, ok |-> FALSE, run |-> 0]]
             ELSE [inst EXCEPT
                     !.accesses = Append(@, artifact),
                     !.dict = Stored(@, artifact, missing),
                     !.computed = [a \in AllArtifacts |-> IF a \in missing THEN @[a] + 1 ELSE @[a]],
                     !.last = [artifact |-> artifact, ok |-> TRUE,
                               run |-> inst.computed[artifact]
                                       + (IF artifact \in missing THEN 1 ELSE 0)]]
    /\ UNCHANGED <<life, http>>
    /\ UNCHANGED resolverVars
    /\ UNCHANGED cacheVars
    /\ UNCHANGED callVars

NextDerived == \E artifact \in AllArtifacts : Access(artifact)

SpecDerived == InitDerived /\ [][NextDerived]_vars

\* C21: every derived artifact of an instance is computed at most once.
C21_ComputedOnce ==
    inst # <<>> => \A a \in Artifacts(inst.class) : inst.computed[a] <= 1

\* The same of the cached properties alone: the key objects and the byte
\* forms are computed at most once, and a later access returns the result
\* of that one computation.
CachedPropertiesComputedOnce ==
    inst # <<>> =>
        /\ \A a \in Artifacts(inst.class) \cap CachedProperties : inst.computed[a] <= 1
        /\ (inst.last.ok /\ inst.last.artifact \in CachedProperties) => inst.last.run = 1

----------------------------------------------------------------------------
(* The ASGI lifespan: get_lifespan_state at startup (the settings, the     *)
(* two database objects, the Redis ping), the yield of the state while     *)
(* the application serves, dispose at shutdown.  Each call into a library  *)
(* (the engine and pool constructors, ping, aclose, disconnect, dispose)   *)
(* returns or raises; what it does is the action's input.                  *)

\* Subclasses of Exception, and one exception that is none (cancellation).
Exceptions == {"ConnectionError", "TimeoutError", "ValidationError"}
BaseExceptions == {"CancelledError"}
Outcomes == {"ok"} \cup Exceptions \cup BaseExceptions

LogEntry(level, message, exc) == [level |-> level, message |-> message, exc |-> exc]

LifeStart ==
    [pc |-> "startup",
     log |-> <<>>,
     engine |-> "none",       \* the Postgres engine: none, open, closed
     pool |-> "none",         \* the Redis connection pool
     client |-> "none",       \* the Redis client
     thrown |-> "none",       \* the exception a library call raised at startup
     pending |-> "none",      \* the exception that ended the serving phase
     raised |-> "none",       \* the exception that left the lifespan
     yielded |-> FALSE,       \* the lifespan yielded its state
     disposed |-> 0,          \* calls of LifespanState.dispose
     close_raised |-> FALSE]  \* a close raised during dispose

InitLifespan ==
    /\ ResolverIdle
    /\ CacheIdle
    /\ hist = HistInit("off")
    /\ fn = "none"
    /\ args = <<>>
    /\ result = NotCalled
    /\ inst = <<>>
    /\ http = <<>>
    /\ life = LifeStart

LifeStep ==
    /\ UNCHANGED <<inst, http>>
    /\ UNCHANGED resolverVars
    /\ UNCHANGED cacheVars
    /\ UNCHANGED callVars

\* Mutant: the handler logs the failure and goes on with the state.
HandleStartupFailureSwallowed(l, e) ==
    [l EXCEPT !.thrown = e,
              !.log = Append(@, LogEntry("CRITICAL", "Failed to initialize lifespan state", e)),
              !.pc = "yield"]

\* get_lifespan_state's handler: "except Exception" logs and re-raises; any
\* other exception passes it unlogged.  The exception then leaves lifespan,
\* whose call of get_lifespan_state is outside its try.
HandleStartupFailure(l, e) ==
    [l EXCEPT !.thrown = e,
              !.raised = e,
              !.log = IF e \in Exceptions
                      THEN Append(@, LogEntry("CRITICAL", "Failed to initialize lifespan state", e))
                      ELSE @,
              !.pc = "failed"]

\* lifespan's first line and get_lifespan_state's three accessor calls,
\* which are outside the try: an error of theirs leaves unlogged.
StartupAccessors == <<"get_secret_settings", "get_app_settings", "get_secret_jwks">>

Startup ==
    /\ life # <<>>
    /\ life.pc = "startup"
    /\ life' = [life EXCEPT !.pc = StartupAccessors[1],
                            !.log = Append(@, LogEntry("INFO", "ASGI Lifespan Startup", "none"))]
    /\ LifeStep

GetSettings(i, out) ==
    /\ life # <<>>
    /\ life.pc = StartupAccessors[i]
    /\ life' = IF out # "ok" THEN [life EXCEPT !.pc = "failed", !.raised = out]
               ELSE IF i < Len(StartupAccessors) THEN [life EXCEPT !.pc = StartupAccessors[i + 1]]
               ELSE [life EXCEPT !.pc = "PostgresDatabase.create"]
    /\ LifeStep

\* LifespanState.create: PostgresDatabase.create, then RedisDatabase.create.
CreatePostgres(out) ==
    /\ life # <<>>
    /\ life.pc = "PostgresDatabase.create"
    /\ life' = IF out # "ok" THEN HandleStartupFailure(life, out)
               ELSE [life EXCEPT !.engine = "open", !.pc = "RedisDatabase.create"]
    /\ LifeStep

CreateRedis(out) ==
    /\ life # <<>>
    /\ life.pc = "RedisDatabase.create"
    /\ life' = IF out # "ok" THEN HandleStartupFailure(life, out)
               ELSE [life EXCEPT !.pool = "open", !.client = "open", !.pc = "initialize"]
    /\ LifeStep

\* LifespanState.initialize: the Redis ping inside _log_connection_failure,
\* which logs an Exception and re-raises it.
Initialize(ping) ==
    /\ life # <<>>
    /\ life.pc = "initialize"
    /\ LET testing == [life EXCEPT !.log = @ \o << LogEntry("INFO", "Testing if redis is reachable...", "none"),
                                                  LogEntry("INFO", "Connecting to Redis...", "none") >>]
       IN  life' =
             IF ping = "ok"
             THEN [testing EXCEPT !.log = @ \o << LogEntry("INFO", "Successfully connected to Redis.", "none"),
                                                  LogEntry("INFO", "All databases are reachable.", "none") >>,
                                  !.pc = "yield"]
             ELSE IF ping \in Exceptions
             THEN HandleStartupFailure(
                      [testing EXCEPT !.log = Append(@, LogEntry("ERROR", "Failed to connect to Redis", ping))],
                      ping)
             ELSE HandleStartupFailure(testing, ping)
    /\ LifeStep

\* lifespan yields the state: the application serves.
Yield ==
    /\ life # <<>>
    /\ life.pc = "yield"
    /\ life' = [life EXCEPT !.yielded = TRUE, !.pc = "serving"]
    /\ LifeStep

\* The serving phase ends, normally or with an exception thrown into the
\* generator: the finally clause logs and calls dispose.
Shutdown(out) ==
    /\ life # <<>>
    /\ life.pc = "serving"
    /\ life' = [life EXCEPT !.pending = IF out = "ok" THEN "none" ELSE out,
                            !.disposed = @ + 1,
                            !.log = @ \o << LogEntry("INFO", "ASGI Lifespan Shutdown", "none"),
                                            LogEntry("INFO", "Disposing database connections...", "none"),
                                            LogEntry("INFO", "Closing Redis connection...", "none") >>,
                            !.pc = "client.aclose"]
    /\ LifeStep

\* RedisDatabase.aclose: client.aclose(), then pool.disconnect().
ClientAclose(out) ==
    /\ life # <<>>
    /\ life.pc = "client.aclose"
    /\ life' = IF out = "ok"
               THEN [life EXCEPT !.client = "closed", !.pc = "pool.disconnect"]
               ELSE [life EXCEPT !.raised = out, !.close_raised = TRUE, !.pc = "stopped"]
    /\ LifeStep

PoolDisconnect(out) ==
    /\ life # <<>>
    /\ life.pc = "pool.disconnect"
    /\ life' = IF out = "ok"
               THEN [life EXCEPT !.pool = "closed", !.pc = "engine.dispose",
                                 !.log = Append(@, LogEntry("INFO", "Closing Postgres connection...", "none"))]
               ELSE [life EXCEPT !.raised = out, !.close_raised = TRUE, !.pc = "stopped"]
    /\ LifeStep

\* PostgresDatabase.aclose: async_engine.dispose().
EngineDispose(out) ==
    /\ life # <<>>
    /\ life.pc = "engine.dispose"
    /\ life' = IF out = "ok"
               THEN [life EXCEPT !.engine = "closed", !.raised = life.pending, !.pc = "stopped",
                                 !.log = Append(@, LogEntry("INFO", "All database connections disposed.", "none"))]
               ELSE [life EXCEPT !.raised = out, !.close_raised = TRUE, !.pc = "stopped"]
    /\ LifeStep

NextLifespan ==
    \/ Startup
    \/ \E i \in 1..Len(StartupAccessors), out \in Outcomes : GetSettings(i, out)
    \/ \E out \in Outcomes : CreatePostgres(out)
    \/ \E out \in Outcomes : CreateRedis(out)
    \/ \E ping \in Outcomes : Initialize(ping)
    \/ Yield
    \/ \E out \in Outcomes : Shutdown(out)
    \/ \E out \in Outcomes : ClientAclose(out)
    \/ \E out \in Outcomes : PoolDisconnect(out)
    \/ \E out \in Outcomes : EngineDispose(out)

SpecLifespan == InitLifespan /\ [][NextLifespan]_vars

\* C23: when building the lifespan state or the Redis ping raises an
\* Exception, the failure is logged and that exception leaves
\* get_lifespan_state and the lifespan's startup; whatever was raised, the
\* lifespan does not yield its state.
C23_StartupFailureReraised ==
    (life # <<>> /\ life.thrown # "none") =>
        /\ life.pc = "failed"
        /\ life.raised = life.thrown
        /\ ~life.yielded
        /\ life.thrown \in Exceptions =>
               LogEntry("CRITICAL", "Failed to initialize lifespan state", life.thrown)
                   \in Range(life.log)

\* The Redis ping raised ConnectionError at startup.
C23_Witness ==
    /\ life # <<>>
    /\ life.thrown = "ConnectionError"
    /\ LogEntry("ERROR", "Failed to connect to Redis", "ConnectionError") \in Range(life.log)

\* C28: once the lifespan has yielded and the serving phase has ended,
\* dispose has run exactly once and has closed the Redis client, the Redis
\* pool and the Postgres engine, whatever closing any of them raised.
C28_DisposeClosesBoth ==
    (life # <<>> /\ life.pc = "stopped") =>
        /\ life.disposed = 1
        /\ life.client = "closed"
        /\ life.pool = "closed"
        /\ life.engine = "closed"

\* dispose runs exactly once when the serving phase ends, and closes all
\* three when no close raises.
DisposeOnce ==
    (life # <<>> /\ life.pc = "stopped") =>
        /\ life.disposed = 1
        /\ life.yielded
        /\ ~life.close_raised =>
               life.raised = life.pending /\ life.client = "closed" /\ life.pool = "closed" /\ life.engine = "closed"

----------------------------------------------------------------------------
(* CorrelationMiddleware.  A header value is a sequence of bytes, "a" and  *)
(* "b" standing for ASCII bytes and "ÿ" for a byte above 127; an id is the *)
(* text of such bytes, or the one symbol 'not-set', or a fresh uuid.  Each *)
(* request's call of the middleware runs in a task of its own (it is       *)
(* called below AccessMiddleware, a BaseHTTPMiddleware), and a task has    *)
(* its own copy of the context: _correlation_id has one value per task.    *)

NumRequests == 2
MaxLogs == 1

Requests == 1..NumRequests

NotSet == <<"not-set">>
uuid4(r) == <<"uuid", str(r)>>

AsciiBytes == {"a", "b"}

\* Mutant: every byte is kept.
decode_all(bytes) == bytes
\* bytes.decode('ascii', 'ignore') and str.encode('ascii')
decode_ascii_ignore(bytes) == SelectSeq(bytes, LAMBDA b : b \in AsciiBytes)
encode_ascii(text) == text

Header(name, value) == [name |-> name, value |-> value]

\* The first header of that name, letter case ignored; None when there is
\* none or its value is empty, else the value decoded.
_get_from_headers(header_name, headers) ==
    LET matching == SelectSeq(headers, LAMBDA h : lower(h.name) = lower(header_name))
    IN  IF matching = <<>> THEN None
        ELSE IF matching[1].value = <<>> THEN None
        ELSE Str(decode_ascii_ignore(matching[1].value))

\* The header name the middleware is registered with, lowered by __init__.
HeaderName == lower("X-Correlation-ID")

\* Mutant: every request runs in the one context.
ContextShared(r) == 1
\* The context a request's call of CorrelationMiddleware runs in: that of
\* the task call_next starts for it.
ContextOf(r) == r
\* The context AccessMiddleware.dispatch runs in for the request: that of
\* the server's task, of which the other is a copy.
AccessContextOf(r) == NumRequests + r
Contexts == 1..(2 * NumRequests)

\* set_correlation_id: _correlation_id.set(val or generate()) in the
\* current context.
set_correlation_id(ctx, c, val, fresh) ==
    [ctx EXCEPT ![c] = IF val # <<>> THEN val ELSE fresh]

\* Mutant: the variable is left as the request set it.
reset_skipped(ctx, c, token) == ctx
\* reset_correlation_id: _correlation_id.reset(token)
reset_correlation_id(ctx, c, token) == [ctx EXCEPT ![c] = token]

\* existing or self._factory()
Correlation(r, headers) ==
    LET existing == _get_from_headers(HeaderName, headers)
    IN  IF NonEmpty(existing) THEN existing.v ELSE uuid4(r)

\* A request not made (yet), and one arrived with its scope.
NoRequest == [pc |-> "absent"]
NewRequest(type, headers) ==
    [pc |-> "new",
     type |-> type,            \* scope['type']
     headers |-> headers,      \* scope['headers']
     correlation |-> <<>>,     \* the local variable correlation
     token |-> <<>>,           \* ctx_token: the value to restore
     before |-> <<>>,          \* _correlation_id when the call began
     observed |-> <<>>,        \* what get_correlation_id returned to inner code
     outside |-> <<>>,         \* what it returned to the log patcher in dispatch
     started |-> <<>>,         \* the response-start messages passed on to send
     outcome |-> "none"]       \* returned or raised

\* The scopes' headers tried, and the headers of a response-start message
\* as the inner application sends it.
RequestHeaders ==
    { <<>>,
      << Header("user-agent", <<"a">>) >>,
      << Header("x-correlation-id", <<"a">>) >>,
      << Header("X-Correlation-ID", <<"b">>) >>,
      << Header("x-correlation-id", <<>>) >>,
      << Header("x-correlation-id", <<"ÿ">>) >>,
      << Header("x-correlation-id", <<"a", "ÿ">>) >>,
      << Header("x-correlation-id", <<>>), Header("x-correlation-id", <<"a">>) >>,
      << Header("x-correlation-id", <<"a">>), Header("x-correlation-id", <<"b">>) >> }
ResponseHeaders == { <<>>, << Header("content-type", <<"a">>) >> }
ScopeTypes == {"http", "websocket"}

\* __call__ up to the await of the inner application.
Call(r) ==
    /\ http # <<>>
    /\ http.req[r].pc = "new"
    /\ LET q == http.req[r]
           c == ContextOf(r)
           correlation == Correlation(r, q.headers)
       IN  http' =
             IF q.type # "http"
             THEN [http EXCEPT !.req[r] = [q EXCEPT !.pc = "inner", !.before = http.ctx[c]]]
             ELSE [http EXCEPT
                     !.ctx = set_correlation_id(@, c, correlation, uuid4(r)),
                     !.req[r] = [q EXCEPT !.pc = "inner",
                                          !.before = http.ctx[c],
                                          !.token = http.ctx[c],
                                          !.correlation = correlation]]
    /\ UNCHANGED <<inst, life>>
    /\ UNCHANGED resolverVars
    /\ UNCHANGED cacheVars
    /\ UNCHANGED callVars

\* Code of the inner application, or the log-record patcher on a record it
\* logs, calls get_correlation_id.
Observe(r) ==
    /\ http # <<>>
    /\ http.req[r].pc = "inner"
    /\ Len(http.req[r].observed) < MaxLogs
    /\ http' = [http EXCEPT !.req[r].observed = Append(@, http.ctx[ContextOf(r)])]
    /\ UNCHANGED <<inst, life>>
    /\ UNCHANGED resolverVars
    /\ UNCHANGED cacheVars
    /\ UNCHANGED callVars

\* AccessMiddleware.dispatch logs the request before call_next and the
\* response after it: the log-record patcher calls get_correlation_id.
ObserveOutside(r) ==
    /\ http # <<>>
    /\ http.req[r].pc \in {"new", "done"}
    /\ http.req[r].type = "http"
    /\ Len(http.req[r].outside) < MaxLogs
    /\ http' = [http EXCEPT !.req[r].outside = Append(@, http.ctx[AccessContextOf(r)])]
    /\ UNCHANGED <<inst, life>>
    /\ UNCHANGED resolverVars
    /\ UNCHANGED cacheVars
    /\ UNCHANGED callVars

\* The inner application sends http.response.start: send_wrapper appends
\* the header and passes the message on.  (A non-HTTP scope is given the
\* server's send itself.)
SendStart(r, headers) ==
    /\ http # <<>>
    /\ http.req[r].pc = "inner"
    /\ http.req[r].started = <<>>
    /\ LET q == http.req[r]
           message == IF q.type = "http"
                      THEN Append(headers, Header(HeaderName, encode_ascii(q.correlation)))
                      ELSE headers
       IN  http' = [http EXCEPT !.req[r].started = Append(@, [sent |-> headers, passed |-> message])]
    /\ UNCHANGED <<inst, life>>
    /\ UNCHANGED resolverVars
    /\ UNCHANGED cacheVars
    /\ UNCHANGED callVars

\* The inner application returns or raises: finally resets the variable
\* with the token.
Finish(r, ending) ==
    /\ http # <<>>
    /\ http.req[r].pc = "inner"
    /\ LET q == http.req[r]
           c == ContextOf(r)
       IN  http' =
             IF q.type # "http"
             THEN [http EXCEPT !.req[r] = [q EXCEPT !.pc = "done", !.outcome = ending]]
             ELSE [http EXCEPT !.ctx = reset_correlation_id(@, c, q.token),
                               !.req[r] = [q EXCEPT !.pc = "done", !.outcome = ending]]
    /\ UNCHANGED <<inst, life>>
    /\ UNCHANGED resolverVars
    /\ UNCHANGED cacheVars
    /\ UNCHANGED callVars

HttpIdle ==
    /\ ResolverIdle
    /\ CacheIdle
    /\ hist = HistInit("off")
    /\ fn = "none"
    /\ args = <<>>
    /\ result = NotCalled
    /\ inst = <<>>
    /\ life = <<>>

\* One request, with any of the headers, in a context that holds the
\* default or a value set before.
InitRequest ==
    /\ HttpIdle
    /\ \E type \in ScopeTypes, headers \in RequestHeaders, held \in {NotSet, <<"b">>} :
           http = [ctx |-> [c \in Contexts |-> held],
                   req |-> [r \in Requests |->
                               IF r = 1 THEN NewRequest(type, headers) ELSE NoRequest]]

\* Requests in flight together: the first carries an id, the others carry
\* none, or all carry that id.
InitRequests ==
    /\ HttpIdle
    /\ \E same \in BOOLEAN :
           http = [ctx |-> [c \in Contexts |-> NotSet],
                   req |-> [r \in Requests |->
                               NewRequest("http",
                                   IF r = 1 \/ same
                                   THEN << Header("x-correlation-id", <<"a">>) >>
                                   ELSE <<>>)]]

NextRequest ==
    \/ \E r \in Requests : Call(r)
    \/ \E r \in Requests : Observe(r)
    \/ \E r \in Requests : ObserveOutside(r)
    \/ \E r \in Requests, headers \in ResponseHeaders : SendStart(r, headers)
    \/ \E r \in Requests, ending \in {"returned", "raised"} : Finish(r, ending)

SpecRequest == InitRequest /\ [][NextRequest]_vars
SpecRequests == InitRequests /\ [][NextRequest]_vars

Arrived(r) == http # <<>> /\ http.req[r].pc # "absent"

Handled(r) == Arrived(r) /\ http.req[r].pc \in {"inner", "done"}

\* C24: for an HTTP request the correlation id is set when the inner
\* application is invoked and is that value whenever the request's code
\* reads it; when the handling ends, by return or by exception, the
\* variable holds again what it held before the request.  A scope that is
\* not HTTP leaves it as it was.
C24_SetThenRestored ==
    \A r \in Requests :
        Handled(r) =>
            LET q == http.req[r]
                now == http.ctx[ContextOf(r)]
            IN  IF q.type = "http"
                THEN /\ q.correlation # <<>>
                     /\ q.pc = "inner" => now = q.correlation
                     /\ \A i \in 1..Len(q.observed) : q.observed[i] = q.correlation
                     /\ q.pc = "done" => now = q.before
                ELSE now = q.before

\* An HTTP request whose inner application raised, in a context that held
\* a value before, after its code read the request's id.
C24_Witness ==
    /\ Arrived(1)
    /\ http.req[1].type = "http"
    /\ http.req[1].pc = "done"
    /\ http.req[1].outcome = "raised"
    /\ http.req[1].before = <<"b">>
    /\ http.req[1].observed = << <<"a">> >>
    /\ http.ctx[ContextOf(1)] = <<"b">>

\* C27 as stated: with requests in flight together, whatever code runs for
\* a request (the log patcher in AccessMiddleware included) reads the
\* request's own id.
C27_AlwaysOwnId ==
    \A r \in Requests :
        (Handled(r) /\ http.req[r].type = "http") =>
            LET q == http.req[r]
            IN  /\ \A i \in 1..Len(q.observed) : q.observed[i] = q.correlation
                /\ \A i \in 1..Len(q.outside) : q.outside[i] = q.correlation
                /\ q.pc = "inner" => http.ctx[ContextOf(r)] = q.correlation

\* C27, amended: code running inside CorrelationMiddleware reads the
\* request's own id, and goes on doing so when another request has finished
\* and reset its id; code running outside it for the request reads the
\* value the context held before, never another request's id.
C27_IsolatedPerRequest ==
    \A r \in Requests :
        (Arrived(r) /\ http.req[r].type = "http") =>
            LET q == http.req[r]
            IN  /\ \A i \in 1..Len(q.observed) : q.observed[i] = q.correlation
                /\ Handled(r) /\ q.pc = "inner" => http.ctx[ContextOf(r)] = q.correlation
                /\ \A i \in 1..Len(q.outside) :
                       /\ q.outside[i] = NotSet
                       /\ \A o \in Requests \ {r} :
                              Handled(o) => q.outside[i] # http.req[o].correlation

\* Request 1 has finished and reset its id; request 2, with another id, is
\* still in flight and has read its id.
C27_Witness ==
    /\ Arrived(1) /\ Arrived(2)
    /\ http.req[1].pc = "done"
    /\ http.req[2].pc = "inner"
    /\ http.req[1].correlation # http.req[2].correlation
    /\ http.req[2].observed # <<>>

\* The values of the request's correlation headers, letter case of the
\* name ignored.
CorrelationHeaders(q) ==
    SelectSeq(q.headers, LAMBDA h : lower(h.name) = "x-correlation-id")

\* What holds of the response header for any id: the id is what the
\* context holds during the handling, and each response-start message is
\* passed on with exactly one header appended, the id under the header name.
HeaderCarries(r) ==
    LET q == http.req[r]
    IN  /\ q.pc = "inner" => http.ctx[ContextOf(r)] = q.correlation
        /\ \A i \in 1..Len(q.started) :
               q.started[i].passed
                   = Append(q.started[i].sent, Header("x-correlation-id", q.correlation))

\* C30 as stated: the id is the value of the incoming correlation header
\* when the request carries a non-empty one, else a fresh id.
C30_HeaderEqualsIncoming ==
    \A r \in Requests :
        (Handled(r) /\ http.req[r].type = "http") =>
            LET q == http.req[r]
                carried == {h.value : h \in Range(CorrelationHeaders(q))} \ {<<>>}
            IN  /\ HeaderCarries(r)
                /\ IF carried # {} THEN q.correlation \in carried
                   ELSE q.correlation = uuid4(r)

\* The bytes of a value that are ASCII, in their order.
RECURSIVE AsciiOf(_)
AsciiOf(bytes) ==
    IF bytes = <<>> THEN <<>>
    ELSE (IF Head(bytes) \in AsciiBytes THEN <<Head(bytes)>> ELSE <<>>) \o AsciiOf(Tail(bytes))

\* C30, amended: the id is the ASCII bytes of the first incoming
\* correlation header's value when there are any, else a fresh id.
C30_HeaderEqualsAsciiOfFirst ==
    \A r \in Requests :
        (Handled(r) /\ http.req[r].type = "http") =>
            LET q == http.req[r]
                first == IF CorrelationHeaders(q) = <<>> THEN <<>>
                         ELSE CorrelationHeaders(q)[1].value
            IN  /\ HeaderCarries(r)
                /\ IF AsciiOf(first) # <<>>
                   THEN q.correlation = AsciiOf(first)
                   ELSE q.correlation = uuid4(r)

\* A request whose correlation header holds an ASCII byte and another, the
\* response started.
C30_Witness ==
    /\ Arrived(1)
    /\ http.req[1].type = "http"
    /\ http.req[1].headers = << Header("x-correlation-id", <<"a", "ÿ">>) >>
    /\ http.req[1].correlation = <<"a">>
    /\ http.req[1].started # <<>>

----------------------------------------------------------------------------
(* EnvConfig's docstring against its settings_customise_sources.           *)

\* The sources holding the path, by name.
HeldBy(path) == {Sources(group)[i] : i \in Suppliers(path)}

----------------------------------------------------------------------------
(* The file that is checked against the file that is loaded.               *)

\* The path handed to the TOML source for the environment: the path
\* verify_toml_path returned, or 'configs/app.{environment}.toml'.
LoadedPath(f, environment) ==
    IF f = "verify_toml_path" THEN <<"config", environment, "toml">>
    ELSE <<"app", environment, "toml">>

\* C26: the file checked is the file loaded: when the check passes the
\* file to load exists, and when the file to load exists the check does
\* not raise.
C26_CheckedIsLoaded ==
    (fn \in {"verify_toml_path", "get_app_settings"} /\ result.called) =>
        LET loaded == LoadedPath(fn, args.environment)
        IN  /\ result.ok => result.value = loaded
            /\ result.ok => CheckedPath(fn, args.environment) = loaded
            /\ result.ok => is_file(args.dir, loaded)
            /\ is_file(args.dir, loaded) => result.ok

\* The same of verify_toml_path alone, which AppSettings and
\* SecretTomlSettings call.
VerifiedIsLoaded ==
    (fn = "verify_toml_path" /\ result.called) =>
        LET loaded == LoadedPath(fn, args.environment)
        IN  /\ result.ok => result.value = loaded /\ is_file(args.dir, loaded)
            /\ is_file(args.dir, loaded) => result.ok

====
